---- MODULE Spec2Model ----
(***************************************************************************)
(* Proximity matching and notification engine of campusconnect-backend.    *)
(*                                                                         *)
(* State: the profiles collection, the admin/geofence settings document,   *)
(* the process environment, the wall clock and, per user, the location     *)
(* update request that is being handled (PATCH /:id/location).  The        *)
(* handler is modelled await by await: every document-store call is a      *)
(* suspension point at which other requests may run.  `last` is the last   *)
(* response with the history of its request, `used` counts the requests    *)
(* made so far against the bounds below.  `io` is the socket server: its   *)
(* connections, the identity-to-connection registry io.userSockets and     *)
(* what each connection has received.  `scored` is a call of the           *)
(* compatibility scorer: its arguments and what it returned.  `view` is    *)
(* the last response of a read endpoint.  `db` holds the documents of the  *)
(* other collections the model follows (a group, a connection and its      *)
(* thread), `calls` the requests to the group and connection routes that   *)
(* are being handled.                                                      *)
(*                                                                         *)
(* Numbers.  A JavaScript number is a record [t, v]: t = "num" with v the  *)
(* value, or t = "nan" / "inf"; null and undefined are t = "null".         *)
(* Latitudes and longitudes are in micro-degrees, distances and radii in   *)
(* centimetres, times in milliseconds.                                     *)
(***************************************************************************)
EXTENDS Integers, Sequences, FiniteSets, TLC

VARIABLES profiles, geofenceDoc, env, clock, req, last, used, io, scored, view,
          db, calls

vars == <<profiles, geofenceDoc, env, clock, req, last, used, io, scored, view,
          db, calls>>

(***************************************************************************)
(* Bounds of the model.                                                    *)
(***************************************************************************)
MaxUpdates == 2
MaxInFlight == 1
MaxEdits == 2
MaxPatches == 1
MaxTicks == 1
MaxSocketEvents == 4
MaxCalls == 3

Users == {"u1", "u2"}

(***************************************************************************)
(* JavaScript values.                                                      *)
(***************************************************************************)
Num(x) == [t |-> "num", v |-> x]
NaNV == [t |-> "nan", v |-> 0]
InfV == [t |-> "inf", v |-> 0]
Null == [t |-> "null", v |-> 0]

IsNum(x) == x.t = "num"
\* typeof x === 'number'
TypeofNumber(x) == x.t \in {"num", "nan", "inf"}
\* isNaN / Number.isNaN on a value that is null or a number
IsNaN(x) == x.t = "nan"
\* a <= b, a >= b on numbers: any comparison with NaN is false
Leq(a, b) == IsNum(a) /\ IsNum(b) /\ a.v <= b.v
Geq(a, b) == IsNum(a) /\ IsNum(b) /\ a.v >= b.v
\* x || d on numbers: 0 and NaN are falsy
OrDefault(x, d) == IF x.t \in {"nan", "null"} \/ (IsNum(x) /\ x.v = 0) THEN d ELSE x
\* x ?? d: only null and undefined fall through
Coalesce(x, d) == IF x.t = "null" THEN d ELSE x

(***************************************************************************)
(* Strings are sequences of one-character strings, so that toLowerCase     *)
(* and trim are computed.                                                  *)
(***************************************************************************)
LowerChar(c) ==
  CASE c = "A" -> "a"
    [] c = "C" -> "c"
    [] c = "I" -> "i"
    [] c = "S" -> "s"
    [] OTHER -> c

ToLowerCase(s) == [i \in 1..Len(s) |-> LowerChar(s[i])]

RECURSIVE TrimStart(_)
TrimStart(s) == IF s # <<>> /\ Head(s) = " " THEN TrimStart(Tail(s)) ELSE s

RECURSIVE TrimEnd(_)
TrimEnd(s) ==
  IF s # <<>> /\ s[Len(s)] = " " THEN TrimEnd(SubSeq(s, 1, Len(s) - 1)) ELSE s

Trim(s) == TrimEnd(TrimStart(s))

\* (x || '').toLowerCase().trim()
Normalize(s) == Trim(ToLowerCase(s))

Includes(s, x) == \E i \in 1..Len(s) : s[i] = x

\* list.filter(Boolean) on a list of strings
RECURSIVE FilterNonEmpty(_)
FilterNonEmpty(s) ==
  IF s = <<>> THEN <<>>
  ELSE (IF Head(s) # <<>> THEN <<Head(s)>> ELSE <<>>) \o FilterNonEmpty(Tail(s))

\* interests.map(i => (i || '').toLowerCase().trim()).filter(Boolean)
NormalizeInterests(list) ==
  FilterNonEmpty([i \in 1..Len(list) |-> Normalize(list[i])])

\* currentInterests.filter(i => otherInterests.includes(i))
RECURSIVE CommonInterests(_, _)
CommonInterests(cur, other) ==
  IF cur = <<>> THEN <<>>
  ELSE (IF Includes(other, Head(cur)) THEN <<Head(cur)>> ELSE <<>>)
       \o CommonInterests(Tail(cur), other)

(***************************************************************************)
(* Great-circle distance (utils/geo.js haversineDistance, unit 'm').       *)
(* The formula is evaluated outside the model for the coordinates the      *)
(* model uses; HaversineCm holds the results rounded to the centimetre,    *)
(* row and column i being Coords[i].  A non-finite argument gives NaN      *)
(* (Math.sin(Infinity) is NaN).                                            *)
(***************************************************************************)
Coords ==
  << <<51505000, 50000>>,    \* 1: the default geofence centre
     <<51503950, 50000>>,    \* 2
     <<51503060, 50000>>,    \* 3: 98.96 m south of 2, in the next cell
     <<51504853, 50000>>,    \* 4: 100.41 m north of 2, in the same cell
     <<89000000, 0>>,        \* 5
     <<89000000, 30000>>,    \* 6: 58.22 m east of 5, three cells away
     <<91000000, 50000>>,    \* 7: latitude out of range
     <<51535000, 50000>> >>  \* 8: 3.45 km north of 2

HaversineCm ==
  <<<<0, 11675, 21572, 1635, 416925382, 416925378, 439164363, 333585>>,
    <<11675, 0, 9896, 10041, 416937057, 416937054, 439176038, 345260>>,
    <<21572, 9896, 0, 19937, 416946954, 416946950, 439185935, 355157>>,
    <<1635, 10041, 19937, 0, 416927016, 416927013, 439165997, 335219>>,
    <<416925382, 416937057, 416946954, 416927016, 0, 5822, 22238983, 416591797>>,
    <<416925378, 416937054, 416946950, 416927013, 5822, 0, 22238985, 416591793>>,
    <<439164363, 439176038, 439185935, 439165997, 22238983, 22238985, 0, 438830778>>,
    <<333585, 345260, 355157, 335219, 416591797, 416591793, 438830778, 0>>>>

CoordIndex(lat, lng) == CHOOSE i \in 1..Len(Coords) : Coords[i] = <<lat, lng>>

haversineDistance(lat1, lon1, lat2, lon2) ==
  IF IsNum(lat1) /\ IsNum(lon1) /\ IsNum(lat2) /\ IsNum(lon2)
  THEN Num(HaversineCm[CoordIndex(lat1.v, lon1.v)][CoordIndex(lat2.v, lon2.v)])
  ELSE NaNV

\* The evaluator with the boundary left out (dist < radiusMeters)
checkStrictlyInside(lat, lng, centerLat, centerLng, radiusMeters) ==
  LET d == haversineDistance(lat, lng, centerLat, centerLng)
  IN ~IsNaN(lat) /\ ~IsNaN(lng) /\ IsNum(d) /\ IsNum(radiusMeters)
       /\ d.v < radiusMeters.v

\* utils/geo.js pointInsideGeofence
checkPointInsideGeofence(lat, lng, centerLat, centerLng, radiusMeters) ==
  IF IsNaN(lat) \/ IsNaN(lng) THEN FALSE
  ELSE Leq(haversineDistance(lat, lng, centerLat, centerLng), radiusMeters)

(***************************************************************************)
(* Spatial bucket key: ngeohash.encode(lat, lng, 6) and                    *)
(* ngeohash.neighbors(hash).  A key of 6 base-32 characters is 30 bits,    *)
(* 15 of longitude interleaved with 15 of latitude, found by bisection     *)
(* with the test `value > mid`.  The key is modelled by the pair           *)
(* <<row, column>> of the cell the bisection ends in, of which the         *)
(* base-32 string is a one-to-one spelling.                                *)
(***************************************************************************)
GeohashPrecision == 6

CellsPerAxis == 2 ^ ((5 * GeohashPrecision) \div 2)

\* The cell of offset x (micro-degrees above the axis minimum) on an axis
\* of `span` micro-degrees: ceil(x * CellsPerAxis / span) - 1, kept in
\* 0 .. CellsPerAxis - 1; computed in parts to stay within 32 bits.
AxisIndex(x, span) ==
  IF x <= 0 THEN 0
  ELSE LET den == span \div 256
           num == CellsPerAxis \div 256
           q == (x \div den) * num + ((x % den) * num) \div den
           i == IF ((x % den) * num) % den = 0 THEN q - 1 ELSE q
       IN IF i > CellsPerAxis - 1 THEN CellsPerAxis - 1 ELSE i

LatRow(lat) ==
  CASE lat.t = "inf" -> CellsPerAxis - 1
    [] lat.t = "num" -> AxisIndex(lat.v + 90000000, 180000000)
    [] OTHER -> 0

LngCol(lng) ==
  CASE lng.t = "inf" -> CellsPerAxis - 1
    [] lng.t = "num" -> AxisIndex(lng.v + 180000000, 360000000)
    [] OTHER -> 0

GeohashEncode(lat, lng) == <<LatRow(lat), LngCol(lng)>>

\* ensure_valid_lat clamps the neighbour's latitude, ensure_valid_lon wraps
\* its longitude
NeighborCell(h, dLat, dLon) ==
  LET r == h[1] + dLat
      row == IF r < 0 THEN 0 ELSE IF r > CellsPerAxis - 1 THEN CellsPerAxis - 1 ELSE r
  IN <<row, (h[2] + dLon + CellsPerAxis) % CellsPerAxis>>

GeohashNeighbors(h) ==
  << NeighborCell(h, 1, 0), NeighborCell(h, 1, 1), NeighborCell(h, 0, 1),
     NeighborCell(h, -1, 1), NeighborCell(h, -1, 0), NeighborCell(h, -1, -1),
     NeighborCell(h, 0, -1), NeighborCell(h, 1, -1) >>

(***************************************************************************)
(* Geofence settings (routes/user.routes.js getGeofenceSettings).          *)
(***************************************************************************)
DEFAULT_GEOFENCE ==
  [enabled |-> TRUE, centerLat |-> Num(51505000), centerLng |-> Num(50000),
   radiusMeters |-> Num(100000)]

\* process.env: each variable is unset (Null) or holds the text of a number
EnvUnset ==
  [GEOFENCE_CENTER_LAT |-> Null, GEOFENCE_CENTER_LNG |-> Null,
   GEOFENCE_RADIUS_M |-> Null, GEOFENCE_ENABLED |-> Null]

EnvSet ==
  [GEOFENCE_CENTER_LAT |-> Num(51505000), GEOFENCE_CENTER_LNG |-> Num(50000),
   GEOFENCE_RADIUS_M |-> Num(100000), GEOFENCE_ENABLED |-> Num(1)]

\* Number(process.env.X): Number(undefined) is NaN
NumberOf(x) == IF x.t = "null" THEN NaNV ELSE x

\* a non-empty string is truthy, undefined is not
Truthy(x) == x.t # "null"

NoGeofenceDoc ==
  [exists |-> FALSE, enabled |-> "unset", centerLat |-> Null, centerLng |-> Null,
   radiusMeters |-> Null]

\* The settings built from the stored document (the `if (geofenceDoc.exists)`
\* branch): Number(undefined) is NaN, which ?? does not replace
FromDocument(doc, e) ==
  [enabled |-> doc.enabled = "true",
   centerLat |-> Coalesce(doc.centerLat,
                   Coalesce(NumberOf(e.GEOFENCE_CENTER_LAT), DEFAULT_GEOFENCE.centerLat)),
   centerLng |-> Coalesce(doc.centerLng,
                   Coalesce(NumberOf(e.GEOFENCE_CENTER_LNG), DEFAULT_GEOFENCE.centerLng)),
   radiusMeters |-> Coalesce(doc.radiusMeters,
                   Coalesce(NumberOf(e.GEOFENCE_RADIUS_M), DEFAULT_GEOFENCE.radiusMeters))]

\* The fallback with the hard-coded defaults enforced when nothing is
\* configured
FromEnvironmentEnforcing(e) ==
  [enabled |-> IF Truthy(e.GEOFENCE_CENTER_LAT) /\ Truthy(e.GEOFENCE_CENTER_LNG)
                    /\ Truthy(e.GEOFENCE_RADIUS_M)
               THEN NumberOf(e.GEOFENCE_ENABLED) = Num(1)
               ELSE DEFAULT_GEOFENCE.enabled,
   centerLat |-> OrDefault(NumberOf(e.GEOFENCE_CENTER_LAT), DEFAULT_GEOFENCE.centerLat),
   centerLng |-> OrDefault(NumberOf(e.GEOFENCE_CENTER_LNG), DEFAULT_GEOFENCE.centerLng),
   radiusMeters |-> OrDefault(NumberOf(e.GEOFENCE_RADIUS_M), DEFAULT_GEOFENCE.radiusMeters)]

\* The fallback from the environment and the hard-coded defaults
FromEnvironment(e) ==
  LET hasEnvVars == Truthy(e.GEOFENCE_CENTER_LAT) /\ Truthy(e.GEOFENCE_CENTER_LNG)
                      /\ Truthy(e.GEOFENCE_RADIUS_M)
  IN [enabled |-> IF hasEnvVars THEN NumberOf(e.GEOFENCE_ENABLED) = Num(1) ELSE FALSE,
      centerLat |-> OrDefault(NumberOf(e.GEOFENCE_CENTER_LAT), DEFAULT_GEOFENCE.centerLat),
      centerLng |-> OrDefault(NumberOf(e.GEOFENCE_CENTER_LNG), DEFAULT_GEOFENCE.centerLng),
      radiusMeters |-> OrDefault(NumberOf(e.GEOFENCE_RADIUS_M), DEFAULT_GEOFENCE.radiusMeters)]

\* ok = FALSE: adminRef.doc('geofence').get() threw and the catch logged it
getGeofenceSettings(doc, ok, e) ==
  IF ok /\ doc.exists THEN FromDocument(doc, e) ELSE FromEnvironment(e)

\* Whether a throwing settings read reaches the caller of
\* getGeofenceSettings: with the try/catch left out it would
SettingsReadPropagates(ok) == ~ok

\* The try/catch of getGeofenceSettings: nothing reaches the caller
SettingsReadThrows(ok) == FALSE

\* The wrapper with the enforcement left out: every point is inside
pointAlwaysInside(lat, lng, settings) == TRUE

\* routes/user.routes.js pointInsideGeofence, `settings` being what its own
\* call of getGeofenceSettings returned
pointInsideGeofence(lat, lng, settings) ==
  IF ~settings.enabled THEN TRUE
  ELSE checkPointInsideGeofence(lat, lng, settings.centerLat, settings.centerLng,
                                settings.radiusMeters)

(***************************************************************************)
(* Documents and request bodies.                                           *)
(***************************************************************************)
NoHash == <<>>

\* profiles/{uid} as every provisioning path creates it
NewProfile ==
  [major |-> <<>>, interests |-> <<>>, locationEnabled |-> FALSE,
   locationLat |-> Null, locationLng |-> Null, locationUpdatedAt |-> Null,
   geohash |-> NoHash]

\* Document order of a collection read
UserOrder == <<"u1", "u2">>

\* Bodies of PUT /:id, per caller
EditBodies(u) ==
  IF u = "u1"
  THEN { [major |-> <<"c", "s">>, interests |-> << <<"a", "i">>, <<"m">> >>,
          locationEnabled |-> TRUE],
         [major |-> <<"c", "s">>, interests |-> << <<"a", "i">> >>,
          locationEnabled |-> FALSE] }
  ELSE { [major |-> <<"C", "S", " ">>, interests |-> << <<" ", "A", "I">> >>,
          locationEnabled |-> TRUE],
         [major |-> <<"e", "e">>, interests |-> << <<"a", "i">> >>,
          locationEnabled |-> TRUE],
         [major |-> <<"c", "s">>, interests |-> << <<"a", "i">> >>,
          locationEnabled |-> FALSE] }

\* sanitizeProfile, on the fields the proximity engine reads
sanitizeProfile(body) ==
  [major |-> body.major,
   interests |-> SubSeq(body.interests, 1,
                        IF Len(body.interests) < 20 THEN Len(body.interests) ELSE 20),
   locationEnabled |-> body.locationEnabled]

\* A field of the body of PATCH /:id/location: a JSON number, a JSON string,
\* or absent
NumberField(x) == [type |-> "number", num |-> Num(x), text |-> ""]
StringField(str) == [type |-> "string", num |-> Null, text |-> str]
Absent == [type |-> "undefined", num |-> Null, text |-> ""]

\* Bodies of PATCH /:id/location, per caller, of the runs that exercise the
\* candidate search
LocationBodies(u) ==
  IF u = "u1"
  THEN { [lat |-> NumberField(51503950), lng |-> NumberField(50000)],
         [lat |-> NumberField(89000000), lng |-> NumberField(0)] }
  ELSE { [lat |-> NumberField(51503060), lng |-> NumberField(50000)],
         [lat |-> StringField("51.504853"), lng |-> StringField("0.05")],
         [lat |-> NumberField(89000000), lng |-> NumberField(30000)] }

\* Bodies of PATCH /:id/location, per caller, of the runs that exercise
\* validation and the geofence
GeofenceBodies(u) ==
  IF u = "u1"
  THEN { [lat |-> NumberField(51503950), lng |-> NumberField(50000)],
         [lat |-> NumberField(89000000), lng |-> NumberField(0)],
         [lat |-> StringField("Infinity"), lng |-> NumberField(50000)],
         [lat |-> Absent, lng |-> NumberField(50000)] }
  ELSE { [lat |-> StringField("51.504853"), lng |-> StringField("0.05")],
         [lat |-> NumberField(91000000), lng |-> NumberField(50000)],
         [lat |-> StringField("abc"), lng |-> StringField("0.05")] }

\* parseFloat on the strings the bodies carry
parseFloat(str) ==
  CASE str = "51.504853" -> Num(51504853)
    [] str = "0.05" -> Num(50000)
    [] str = "Infinity" -> InfV
    [] OTHER -> NaNV

\* typeof x === 'number' ? x : (typeof x === 'string' ? parseFloat(x) : null)
Coerce(f) ==
  CASE f.type = "number" -> f.num
    [] f.type = "string" -> parseFloat(f.text)
    [] OTHER -> Null

\* The validation left out
rejectsNothing(latNum, lngNum) == FALSE

\* latNum === null || lngNum === null || isNaN(latNum) || isNaN(lngNum)
InvalidCoords(latNum, lngNum) ==
  latNum.t = "null" \/ lngNum.t = "null" \/ IsNaN(latNum) \/ IsNaN(lngNum)

\* Bodies of PATCH /geofence-settings (validateBody: radiusMeters >= 10)
PatchBodies ==
  { [enabled |-> "true", centerLat |-> Null, centerLng |-> Null, radiusMeters |-> Null],
    [enabled |-> "false", centerLat |-> Null, centerLng |-> Null, radiusMeters |-> Null],
    [enabled |-> "unset", centerLat |-> Num(51505000), centerLng |-> Num(50000),
     radiusMeters |-> Num(11675)],
    [enabled |-> "true", centerLat |-> Num(51505000), centerLng |-> Num(50000),
     radiusMeters |-> Num(11675)] }

(***************************************************************************)
(* The compatibility scorer (scoreMatch of the matching routes).           *)
(* distanceKm and radiusKm are held in centimetres: 1 km is KmCm.          *)
(***************************************************************************)
KmCm == 100000

\* The value of a number or null in a condition
IsTruthy(x) == x.t = "inf" \/ (x.t = "num" /\ x.v # 0)

\* a > b
Gt(a, b) == IsNum(a) /\ IsNum(b) /\ a.v > b.v

Min(a, b) == IF a < b THEN a ELSE b

Max(a, b) == IF a > b THEN a ELSE b

Abs(a) == IF a < 0 THEN 0 - a ELSE a

\* Math.floor(distanceKm), in kilometres
FloorKm(d) == d.v \div KmCm

\* Math.min(score, 100)
ClampTop(score) == IF IsNum(score) THEN Num(Min(score.v, 100)) ELSE score

\* userInterests.filter((i) => candInterests.includes(i))
Overlap(userInterests, candInterests) ==
  SelectSeq(userInterests, LAMBDA i : Includes(candInterests, i))

scoreMatch(user, candidate, radiusKm) ==
  LET overlap == Overlap(user.interests, candidate.interests)
      interest == Min(Len(overlap) * 10, 30)
      major == IF user.major # <<>> /\ candidate.major # <<>>
                  /\ ToLowerCase(user.major) = ToLowerCase(candidate.major)
               THEN 15 ELSE 0
      diff == Abs(user.year.v - candidate.year.v)
      year == IF IsTruthy(user.year) /\ IsTruthy(candidate.year)
              THEN (IF diff = 0 THEN 10 ELSE IF diff = 1 THEN 6 ELSE 0)
              ELSE 0
      located == TypeofNumber(user.locationLat) /\ TypeofNumber(user.locationLng)
                   /\ TypeofNumber(candidate.locationLat)
                   /\ TypeofNumber(candidate.locationLng)
      distanceKm == IF located
                    THEN haversineDistance(user.locationLat, user.locationLng,
                                           candidate.locationLat, candidate.locationLng)
                    ELSE Null
      base == 30 + interest + major + year
      score == IF ~located THEN Num(base)
               ELSE IF IsTruthy(radiusKm) /\ Gt(distanceKm, radiusKm) THEN Num(base - 50)
               ELSE IF IsNum(distanceKm)
               THEN Num(base + Max(0, 15 - Min(15, FloorKm(distanceKm))))
               ELSE NaNV
  IN [score |-> ClampTop(score), distanceKm |-> distanceKm]

\* The profiles the scorer is called with: userProfile of the caller and a
\* candidate of the collection
ScoreInterests ==
  { <<>>,
    << <<"a", "i">>, <<"m">> >>,
    << <<"a", "i">>, <<"m">>, <<"a", "r", "t">>, <<"g", "o">> >>,
    << <<"A", "I">> >> }

ScoreMajors == { <<>>, <<"c", "s">>, <<"C", "S">>, <<"e", "e">> }

ScoreYears == { Null, Num(2), Num(3), Num(5) }

\* no location, and coordinates 2, 3, 8 and 5 of Coords
ScoreLocations ==
  { <<Null, Null>>, <<Num(51503950), Num(50000)>>, <<Num(51503060), Num(50000)>>,
    <<Num(51535000), Num(50000)>>, <<Num(89000000), Num(0)>> }

ScoreProfile(interests, major, year, at) ==
  [interests |-> interests, major |-> major, year |-> year,
   locationLat |-> at[1], locationLng |-> at[2]]

UserProfiles ==
  { ScoreProfile(i, mj, y, at) :
      i \in ScoreInterests \ { << <<"A", "I">> >> }, mj \in {<<>>, <<"c", "s">>},
      y \in {Null, Num(2)},
      at \in { <<Null, Null>>, <<Num(51503950), Num(50000)>> } }

CandidateProfiles ==
  { ScoreProfile(i, mj, y, at) :
      i \in ScoreInterests, mj \in ScoreMajors, y \in ScoreYears, at \in ScoreLocations }

\* req.query.radiusKm ? Number(req.query.radiusKm) : null -- none, 1 km, 5 km
Radii == { Null, Num(KmCm), Num(5 * KmCm) }

NoResult == [score |-> Null, distanceKm |-> Null]

NotScored ==
  [user |-> ScoreProfile(<<>>, <<>>, Null, <<Null, Null>>),
   candidate |-> ScoreProfile(<<>>, <<>>, Null, <<Null, Null>>),
   radiusKm |-> Null, called |-> FALSE, result |-> NoResult]

\* const { score, distanceKm } = scoreMatch(userProfile, cand, radiusKm)
ScoreMatch ==
  /\ ~scored.called
  /\ scored' = [scored EXCEPT !.called = TRUE,
                              !.result = scoreMatch(scored.user, scored.candidate,
                                                    scored.radiusKm)]
  /\ UNCHANGED <<profiles, geofenceDoc, env, clock, req, last, used, io, view, db, calls>>

(***************************************************************************)
(* The socket server (initializeSocket), in its two versions: "jwt" takes  *)
(* the identity of a connection from its token, "legacy" from the          *)
(* user:register message.                                                  *)
(***************************************************************************)
\* u3 is an account that only listens
Accounts == Users \cup {"u3"}

Sockets == {"s1", "s2", "s3"}

\* socket.user.uid
TokenOf == [s1 |-> "u1", s2 |-> "u2", s3 |-> "u3"]

\* userData.userId of a user:register message; "" is a message without one
ClaimedIds == Accounts \cup {""}

\* new Map()
EmptyMap == <<>>

\* The server once the clients in `open` have connected
NewServer(version, open) ==
  [version |-> version, open |-> open, connectedUsers |-> EmptyMap,
   userSockets |-> EmptyMap, inbox |-> [s \in Sockets |-> <<>>]]

MapSet(map, k, v) == [x \in DOMAIN map \cup {k} |-> IF x = k THEN v ELSE map[x]]

MapDelete(map, k) == [x \in DOMAIN map \ {k} |-> map[x]]

\* map?.get(userId) || []
SocketsOf(map, userId) == IF userId \in DOMAIN map THEN map[userId] ELSE {}

RECURSIVE Flatten(_)
Flatten(ss) == IF ss = <<>> THEN <<>> ELSE Head(ss) \o Flatten(Tail(ss))

\* The object sent with 'proximity:nearby-suggestion'
Payload(p) ==
  [users |-> p.users, distanceMeters |-> p.distanceMeters,
   commonInterests |-> p.commonInterests, timestamp |-> p.timestamp]

\* [...(uSet || []), ...(oSet || [])].forEach(sid => io.to(sid).emit(...)):
\* what connection s receives of the dispatched suggestions.  The room of
\* a connection that has closed is empty.
Emitted(server, emitted, s) ==
  LET Once(set, p) == IF s \in set /\ s \in server.open THEN <<Payload(p)>> ELSE <<>>
  IN Flatten([i \in 1..Len(emitted) |->
                Once(emitted[i].uSet, emitted[i]) \o Once(emitted[i].oSet, emitted[i])])

\* The emit loop clearing the registry once it has run
DeliveredAndCleared(server, r) ==
  IF r.pc = "done" /\ r.emitted # <<>>
  THEN [server EXCEPT !.userSockets = EmptyMap]
  ELSE server

\* The server after the handler went on as r: the emit loop has run when r
\* is the response of a search
Delivered(server, r) ==
  IF r.pc = "done"
  THEN [server EXCEPT !.inbox = [s \in Sockets |-> @[s] \o Emitted(server, r.emitted, s)]]
  ELSE server

\* What a connection is sent of earlier suggestions when it registers
Replayed(s, userId) ==
  SelectSeq([i \in 1..Len(last.r.emitted) |-> Payload(last.r.emitted[i])],
            LAMBDA p : \E i \in 1..Len(p.users) : p.users[i] = userId)

\* user:register emits 'user:status' only
SentOnRegister(s, userId) == <<>>

\* socket.on('user:register', userData)
Register(s, claimed) ==
  /\ s \in io.open
  /\ used.sockets < MaxSocketEvents
  /\ used' = [used EXCEPT !.sockets = @ + 1]
  /\ LET userId == IF io.version = "jwt" THEN TokenOf[s] ELSE claimed
         users == MapSet(io.connectedUsers, s, userId)
         set == SocketsOf(io.userSockets, userId) \cup {s}
     IN io' = [io EXCEPT !.connectedUsers = users,
                         !.userSockets = IF userId # "" THEN MapSet(@, userId, set) ELSE @,
                         !.inbox[s] = @ \o SentOnRegister(s, userId)]
  /\ UNCHANGED <<profiles, geofenceDoc, env, clock, req, last, scored, view, db, calls>>

\* socket.on('disconnect')
Disconnect(s) ==
  /\ s \in io.open
  /\ used.sockets < MaxSocketEvents
  /\ used' = [used EXCEPT !.sockets = @ + 1]
  /\ LET known == s \in DOMAIN io.connectedUsers
         userId == io.connectedUsers[s]
         mapped == known /\ userId \in DOMAIN io.userSockets
         set == io.userSockets[userId] \ {s}
     IN io' = [io EXCEPT !.open = @ \ {s},
                         !.connectedUsers = IF known THEN MapDelete(@, s) ELSE @,
                         !.userSockets = IF ~mapped THEN @
                                         ELSE IF set = {} THEN MapDelete(@, userId)
                                         ELSE MapSet(@, userId, set)]
  /\ UNCHANGED <<profiles, geofenceDoc, env, clock, req, last, scored, view, db, calls>>

(***************************************************************************)
(* The request being handled for each user.                                *)
(***************************************************************************)
NoDoc == [id |-> "", data |-> NewProfile]

\* req.user as requireAuth sets it: the identity of the token and the role
\* of its account
NoCaller == [uid |-> "", role |-> ""]

Account(uid, role) == [uid |-> uid, role |-> role]

\* The accounts that send requests: the two users and an administrator
Callers == {Account(u, "user") : u \in Users} \cup {Account("a1", "admin")}

\* Each profile is requested by its owner
Owners == [u \in Users |-> {Account(u, "user")}]

\* Each profile is requested by any account
Anyone == [u \in Users |-> Callers]

\* The ownership check left out
nextForAnyone(user, id) == TRUE

\* middleware/auth.js requireOwnership('id')
requireOwnership(user, id) == user.role = "admin" \/ user.uid = id

NoUpdate ==
  [locationLat |-> Null, locationLng |-> Null, locationUpdatedAt |-> Null,
   geohash |-> NoHash]

NoMe == [read |-> FALSE, major |-> <<>>, interests |-> <<>>, locationEnabled |-> FALSE]

NoSettings == [enabled |-> FALSE, centerLat |-> Null, centerLng |-> Null, radiusMeters |-> Null]

NoEval == [lat |-> Null, lng |-> Null, settings |-> NoSettings, inside |-> FALSE]

\* From `prior` on, the fields are the history of the request: no step
\* reads them, the properties do.
\*   prior     the stored location fields when the request arrived
\*   first     what getGeofenceSettings returned to the handler
\*   eval      the last call of pointInsideGeofence: its arguments, the
\*             settings it read and what it returned
\*   gate      "open" (enforcement off), "inside", "outside"
\*   failedAt  the await at which the last settings read threw
\*   decided   the settings the decision on the submitted coordinate was
\*             made with
\*   met       the users whose requests were being handled when it arrived
\*   repeats   the bucket queries returned some profile more than once
Idle ==
  [pc |-> "idle", caller |-> NoCaller, variant |-> "none", lat |-> Null, lng |-> Null,
   update |-> NoUpdate, me |-> NoMe, now |-> 0, hashes |-> <<>>, pending |-> {},
   snaps |-> <<>>, queue |-> <<>>, seenIds |-> {}, cur |-> NoDoc,
   suggestions |-> <<>>, emitted |-> <<>>, status |-> 0, error |-> "",
   prior |-> NoUpdate, first |-> NoSettings, eval |-> NoEval, gate |-> "none",
   wrote |-> FALSE, queried |-> FALSE, failedAt |-> "none",
   decided |-> NoSettings, met |-> {}, repeats |-> FALSE]

InFlight(u) == req[u].pc # "idle"

\* res.status(code).json(...): the request ends
Respond(r, code, err) ==
  [r EXCEPT !.pc = "done", !.status = code, !.error = err,
            !.hashes = <<>>, !.pending = {}, !.snaps = <<>>, !.queue = <<>>,
            !.seenIds = {}, !.cur = NoDoc, !.suggestions = <<>>]

\* No response yet
NoResponse == [user |-> "", r |-> Idle]

\* The handler of u's request goes on as r: it waits at its next await, or
\* it has responded, and `last` holds the response and what led to it
Continue(u, r) ==
  /\ req' = [req EXCEPT ![u] = IF r.pc = "done" THEN Idle ELSE r]
  /\ last' = IF r.pc = "done" THEN [user |-> u, r |-> r] ELSE last
  /\ io' = Delivered(io, r)

\* The await at which a settings read threw, "none" when it did not
ReadOutcome(pc, ok) == IF ok THEN "none" ELSE pc

\* catch (err) of the handler
Fail(r) == Respond(r, 500, "Failed to update location")

(***************************************************************************)
(* PATCH /:id/location, both routes of routes/user.routes.js: the one      *)
(* that keeps the geohash index ("geohash") and the one that scans the     *)
(* whole collection ("legacy").                                            *)
(***************************************************************************)
recentThresholdMs == 5 * 60 * 1000

\* the cut-off of `if (dist >= 100) continue`, in centimetres
ProximityCm == 100 * 100

LocationFields(p) ==
  [locationLat |-> p.locationLat, locationLng |-> p.locationLng,
   locationUpdatedAt |-> p.locationUpdatedAt, geohash |-> p.geohash]

\* const update = {...}: the legacy route has no geohash field.  The
\* timestamp is new Date().toISOString(), which keeps the millisecond, and
\* is read back with new Date(...).getTime()
BuildUpdate(r, t) ==
  [locationLat |-> r.lat, locationLng |-> r.lng, locationUpdatedAt |-> Num(t),
   geohash |-> IF r.variant = "geohash" THEN GeohashEncode(r.lat, r.lng) ELSE NoHash]

\* The write undone: the document as it was before the update
RolledBack(p, r) == p

\* profilesRef.doc(userId).set(update, { merge: true })
MergeUpdate(p, r) ==
  [p EXCEPT !.locationLat = r.update.locationLat,
            !.locationLng = r.update.locationLng,
            !.locationUpdatedAt = r.update.locationUpdatedAt,
            !.geohash = IF r.variant = "geohash" THEN r.update.geohash ELSE @]

\* The opt-in test left out: the search always runs
NeverSkips(me) == FALSE

\* currentProfile.locationEnabled !== true
SkipsProximity(me) == me.locationEnabled # TRUE

\* The query without its locationEnabled clause
MatchesBucketAnyFlag(p, h) == p.geohash = h

\* .where('locationEnabled', '==', true).where('geohash', '==', h)
MatchesBucket(p, h) == p.locationEnabled = TRUE /\ p.geohash = h

DocOf(v) == [id |-> v, data |-> profiles[v]]

BucketQuery(h) ==
  LET Hit(v) == MatchesBucket(profiles[v], h)
      ids == SelectSeq(UserOrder, Hit)
  IN [i \in 1..Len(ids) |-> DocOf(ids[i])]

\* profilesRef.get()
CollectionScan == [i \in 1..Len(UserOrder) |-> DocOf(UserOrder[i])]

\* The cells a stored bucket key can name; a query for any other cell is
\* empty whenever it runs
UsedCells ==
  { GeohashEncode(Coerce(b.lat), Coerce(b.lng)) :
      b \in {x \in UNION {LocationBodies(u) \cup GeofenceBodies(u) : u \in Users} :
               ~InvalidCoords(Coerce(x.lat), Coerce(x.lng))} }

\* typeof lat !== 'number' || typeof lng !== 'number' || !locationUpdatedAt
LacksLocation(p) ==
  ~TypeofNumber(p.locationLat) \/ ~TypeofNumber(p.locationLng)
    \/ p.locationUpdatedAt.t = "null"

\* The recency check left out
IsStaleUnparsed(now, ts) == ~IsNum(ts)

\* Number.isNaN(otherTs) || now - otherTs > recentThresholdMs
IsStale(now, ts) == ~IsNum(ts) \/ now - ts.v > recentThresholdMs

\* dist >= 100
TooFar(dist) == Geq(dist, Num(ProximityCm))

\* !currentMajor || !otherMajor || currentMajor !== otherMajor
MajorMismatch(mine, theirs) ==
  Normalize(mine) = <<>> \/ Normalize(theirs) = <<>> \/ Normalize(mine) # Normalize(theirs)

\* Checks 4 to 6 of the filter loop, after the candidate's geofence check:
\* the suggestion to push, or <<>>.  `candidate`, `handledAt` and `fence`
\* are history: the candidate's document as the query returned it, `now`,
\* and the settings its geofence check read.
Suggest(r, doc) ==
  LET p == doc.data
      dist == haversineDistance(r.lat, r.lng, p.locationLat, p.locationLng)
      common == CommonInterests(NormalizeInterests(r.me.interests),
                                NormalizeInterests(p.interests))
  IN IF TooFar(dist) \/ MajorMismatch(r.me.major, p.major) \/ common = <<>>
     THEN <<>>
     ELSE << [userId |-> doc.id, distanceMeters |-> dist, commonInterests |-> common,
              candidate |-> p, handledAt |-> r.now, fence |-> r.eval.settings] >>

\* The payloads with the connections each goes to, and the success
\* response.  io is always set (server.js).  `uSet`, `oSet`, `candidate`,
\* `handledAt` and `fence` are history.
Dispatch(u, r, t) ==
  Respond([r EXCEPT !.emitted =
             [i \in 1..Len(r.suggestions) |->
                [users |-> <<u, r.suggestions[i].userId>>,
                 uSet |-> SocketsOf(io.userSockets, u),
                 oSet |-> SocketsOf(io.userSockets, r.suggestions[i].userId),
                 distanceMeters |-> r.suggestions[i].distanceMeters,
                 commonInterests |-> r.suggestions[i].commonInterests,
                 timestamp |-> t,
                 candidate |-> r.suggestions[i].candidate,
                 handledAt |-> r.suggestions[i].handledAt,
                 fence |-> r.suggestions[i].fence]]],
          200, "")

\* The test of seenIds left out
NeverSeen(r, doc) == FALSE

\* seenIds.has(otherUserId)
AlreadySeen(r, doc) == doc.id \in r.seenIds

\* The filter loop from the head of the queue up to its next await
\* (pointInsideGeofence on a candidate) or, the queue being empty, through
\* the dispatch.
RECURSIVE RunLoop(_, _, _)
RunLoop(u, r, t) ==
  IF r.queue = <<>> THEN Dispatch(u, r, t)
  ELSE LET doc == Head(r.queue)
           rest == [r EXCEPT !.queue = Tail(r.queue)]
           next == IF r.variant = "geohash"
                   THEN [rest EXCEPT !.seenIds = @ \cup {doc.id}] ELSE rest
       IN IF (r.variant = "geohash" /\ AlreadySeen(r, doc))
             \/ (r.variant = "legacy" /\ doc.id = u)
          THEN RunLoop(u, rest, t)
          ELSE IF (r.variant = "legacy" /\ doc.data.locationEnabled # TRUE)
                  \/ LacksLocation(doc.data)
                  \/ IsStale(r.now, doc.data.locationUpdatedAt)
          THEN RunLoop(u, next, t)
          ELSE [next EXCEPT !.pc = "candidate", !.cur = doc]

\* The request of `caller` for the profile of u arrives; requireOwnership,
\* coercion and validation run before the first await
Arrive(caller, u, variant, body) ==
  /\ ~InFlight(u)
  /\ used.updates < MaxUpdates
  /\ used' = [used EXCEPT !.updates = @ + 1]
  /\ LET latNum == Coerce(body.lat)
         lngNum == Coerce(body.lng)
         r == [Idle EXCEPT !.caller = caller, !.variant = variant,
                           !.lat = latNum, !.lng = lngNum,
                           !.prior = LocationFields(profiles[u]),
                           !.met = {v \in Users : InFlight(v)}]
     IN Continue(u, IF ~requireOwnership(caller, u)
                    THEN Respond([r EXCEPT !.lat = Null, !.lng = Null], 403, "Forbidden")
                    ELSE IF InvalidCoords(latNum, lngNum)
                    THEN Respond(r, 400, "Provide valid lat/lng as numbers")
                    ELSE [r EXCEPT !.pc = "settings"])
  /\ UNCHANGED <<profiles, geofenceDoc, env, clock, scored, view, db, calls>>

\* The same, while fewer than MaxInFlight requests are being handled
StartUpdate(caller, u, variant, body) ==
  /\ Cardinality({v \in Users : InFlight(v)}) < MaxInFlight
  /\ Arrive(caller, u, variant, body)

\* const geofenceSettings = await getGeofenceSettings()
ReadSettings(u, ok) ==
  /\ req[u].pc = "settings"
  /\ LET s == getGeofenceSettings(geofenceDoc, ok, env)
         r == [req[u] EXCEPT !.first = s, !.failedAt = ReadOutcome("settings", ok)]
     IN Continue(u,
                  IF SettingsReadThrows(ok) THEN Fail(r)
                  ELSE IF s.enabled
                  THEN [r EXCEPT !.pc = "geofence"]
                  ELSE [r EXCEPT !.pc = "write", !.gate = "open", !.decided = s,
                                 !.update = BuildUpdate(r, clock)])
  /\ UNCHANGED <<profiles, geofenceDoc, env, clock, used, scored, view, db, calls>>

\* const insideCampus = await pointInsideGeofence(coords.lat, coords.lng)
CheckGeofence(u, ok) ==
  /\ req[u].pc = "geofence"
  /\ LET s == getGeofenceSettings(geofenceDoc, ok, env)
         inside == pointInsideGeofence(req[u].lat, req[u].lng, s)
         r == [req[u] EXCEPT !.failedAt = ReadOutcome("geofence", ok),
                             !.eval = [lat |-> req[u].lat, lng |-> req[u].lng,
                                       settings |-> s, inside |-> inside]]
     IN Continue(u,
                  IF SettingsReadThrows(ok) THEN Fail(r)
                  ELSE IF inside
                  THEN [r EXCEPT !.pc = "write", !.gate = "inside", !.decided = s,
                                 !.update = BuildUpdate(r, clock)]
                  ELSE Respond([r EXCEPT !.gate = "outside"], 400,
                               "Location outside campus geofence"))
  /\ UNCHANGED <<profiles, geofenceDoc, env, clock, used, scored, view, db, calls>>

\* await profilesRef.doc(userId).set(update, { merge: true })
WriteLocation(u) ==
  /\ req[u].pc = "write"
  /\ profiles' = [profiles EXCEPT ![u] = MergeUpdate(@, req[u])]
  /\ Continue(u,
               [req[u] EXCEPT !.pc = "profile", !.wrote = TRUE, !.prior = NoUpdate,
                              !.first = NoSettings, !.eval = NoEval,
                              !.failedAt = "none"])
  /\ UNCHANGED <<geofenceDoc, env, clock, used, scored, view, db, calls>>

\* const currentProfileSnap = await profilesRef.doc(userId).get(), the
\* opt-in test and, for a submitter who opted in, the issue of the queries
ReadOwnProfile(u) ==
  /\ req[u].pc = "profile"
  /\ LET p == profiles[u]
         r == [req[u] EXCEPT !.me = [read |-> TRUE, major |-> p.major,
                                     interests |-> p.interests,
                                     locationEnabled |-> p.locationEnabled]]
         hs == <<GeohashEncode(r.lat, r.lng)>> \o GeohashNeighbors(GeohashEncode(r.lat, r.lng))
     IN Continue(u,
                  IF SkipsProximity(r.me) THEN Respond(r, 200, "")
                  ELSE IF r.variant = "geohash"
                  THEN [r EXCEPT !.pc = "query", !.now = clock, !.queried = TRUE,
                                 !.hashes = hs,
                                 !.pending = {k \in 1..Len(hs) : hs[k] \in UsedCells},
                                 !.snaps = [k \in 1..Len(hs) |-> <<>>],
                                 !.seenIds = {u}]
                  ELSE [r EXCEPT !.pc = "scan", !.now = clock, !.queried = TRUE])
  /\ UNCHANGED <<profiles, geofenceDoc, env, clock, used, scored, view, db, calls>>

\* Some profile is in the list of documents more than once
HasRepeats(docs) ==
  \E i, j \in 1..Len(docs) : i # j /\ docs[i].id = docs[j].id

\* One of the bucket queries of Promise.all answers; the last answer
\* resumes the handler, which runs the filter loop to its first await
QueryBucket(u, k) ==
  /\ req[u].pc = "query"
  /\ k \in req[u].pending
  /\ LET r == [req[u] EXCEPT !.pending = @ \ {k},
                             !.snaps = [@ EXCEPT ![k] = BucketQuery(req[u].hashes[k])]]
     IN Continue(u,
                  IF r.pending = {}
                  THEN RunLoop(u, [r EXCEPT !.queue = Flatten(r.snaps),
                                            !.repeats = HasRepeats(Flatten(r.snaps))],
                               clock)
                  ELSE r)
  /\ UNCHANGED <<profiles, geofenceDoc, env, clock, used, scored, view, db, calls>>

\* const allProfilesSnap = await profilesRef.get() of the legacy route
ScanProfiles(u) ==
  /\ req[u].pc = "scan"
  /\ Continue(u,
               RunLoop(u, [req[u] EXCEPT !.queue = CollectionScan], clock))
  /\ UNCHANGED <<profiles, geofenceDoc, env, clock, used, scored, view, db, calls>>

\* const otherInside = await pointInsideGeofence(...) on the candidate, the
\* rest of its checks, and the loop up to the next await
CheckCandidate(u, ok) ==
  /\ req[u].pc = "candidate"
  /\ LET s == getGeofenceSettings(geofenceDoc, ok, env)
         doc == req[u].cur
         inside == pointInsideGeofence(doc.data.locationLat, doc.data.locationLng, s)
         r == [req[u] EXCEPT !.pc = "loop", !.cur = NoDoc,
                             !.failedAt = ReadOutcome("candidate", ok),
                             !.eval = [lat |-> doc.data.locationLat,
                                       lng |-> doc.data.locationLng,
                                       settings |-> s, inside |-> inside]]
         pushed == IF inside THEN [r EXCEPT !.suggestions = @ \o Suggest(r, doc)] ELSE r
     IN Continue(u, IF SettingsReadThrows(ok) THEN Fail(r) ELSE RunLoop(u, pushed, clock))
  /\ UNCHANGED <<profiles, geofenceDoc, env, clock, used, scored, view, db, calls>>

\* A profiles read, write or query throws: catch (err) answers 500
StoreFails(u) ==
  /\ req[u].pc \in {"write", "profile", "query", "scan"}
  /\ Continue(u, Fail([req[u] EXCEPT !.first = NoSettings, !.eval = NoEval,
                                     !.failedAt = "none"]))
  /\ UNCHANGED <<profiles, geofenceDoc, env, clock, used, scored, view, db, calls>>

\* PUT /:id: sanitizeProfile(req.body) merged into the caller's profile
EditProfile(u, body) ==
  /\ used.edits < MaxEdits
  /\ used' = [used EXCEPT !.edits = @ + 1]
  /\ profiles' = [profiles EXCEPT ![u] =
                    [@ EXCEPT !.major = sanitizeProfile(body).major,
                              !.interests = sanitizeProfile(body).interests,
                              !.locationEnabled = sanitizeProfile(body).locationEnabled]]
  /\ UNCHANGED <<geofenceDoc, env, clock, req, last, io, scored, view, db, calls>>

\* PATCH /geofence-settings: the body merged over the stored document
PatchGeofence(body) ==
  /\ used.patches < MaxPatches
  /\ used' = [used EXCEPT !.patches = @ + 1]
  /\ geofenceDoc' =
       [exists |-> TRUE,
        enabled |-> IF body.enabled = "unset" THEN geofenceDoc.enabled ELSE body.enabled,
        centerLat |-> Coalesce(body.centerLat, geofenceDoc.centerLat),
        centerLng |-> Coalesce(body.centerLng, geofenceDoc.centerLng),
        radiusMeters |-> Coalesce(body.radiusMeters, geofenceDoc.radiusMeters)]
  /\ UNCHANGED <<profiles, env, clock, req, last, io, scored, view, db, calls>>

\* Time passes: by the length of the recency window, or by a millisecond
\* more
Tick(d) ==
  /\ used.ticks < MaxTicks
  /\ used' = [used EXCEPT !.ticks = @ + 1]
  /\ clock' = clock + d
  /\ UNCHANGED <<profiles, geofenceDoc, env, req, last, io, scored, view, db, calls>>

(***************************************************************************)
(* The read endpoints of routes/user.routes.js: the directory GET / and    *)
(* the profile reads GET /:id/profile and GET /:id, on the fields of a     *)
(* profile this model carries.  A response object is a function from its   *)
(* keys to their values.                                                   *)
(***************************************************************************)
NoView == [caller |-> "", route |-> "", objects |-> <<>>]

\* profileSnap.data(): the fields the document has
Data(p) ==
  [f \in DOMAIN p \ (IF p.geohash = NoHash THEN {"geohash"} ELSE {}) |-> p[f]]

\* { uid: userId, ...profileSnap.data() }
WithUid(id, data) ==
  [f \in DOMAIN data \cup {"uid"} |-> IF f = "uid" THEN id ELSE data[f]]

\* The object the directory pushes for a document
DirectoryEntry(id, data) ==
  [id |-> id, userId |-> id, major |-> data.major, interests |-> data.interests,
   locationLat |-> IF TypeofNumber(data.locationLat) THEN data.locationLat ELSE Null,
   locationLng |-> IF TypeofNumber(data.locationLng) THEN data.locationLng ELSE Null]

\* GET /
GetDirectory(caller) ==
  /\ LET ids == SelectSeq(UserOrder, LAMBDA v : v # caller.uid)
     IN view' = [caller |-> caller.uid, route |-> "/",
                 objects |-> [i \in 1..Len(ids) |->
                                [about |-> ids[i],
                                 object |-> DirectoryEntry(ids[i], Data(profiles[ids[i]]))]]]
  /\ UNCHANGED <<profiles, geofenceDoc, env, clock, req, last, used, io, scored, db, calls>>

\* GET /:id/profile, and the profile of GET /:id
GetProfile(caller, route, id) ==
  /\ view' = [caller |-> caller.uid, route |-> route,
              objects |-> << [about |-> id, object |-> WithUid(id, Data(profiles[id]))] >>]
  /\ UNCHANGED <<profiles, geofenceDoc, env, clock, req, last, used, io, scored, db, calls>>

\* GET /geofence-settings of the administrator: defaultSettings, and the
\* stored document spread over it.  A field the document lacks keeps its
\* default; `x || d` replaces NaN and 0
adminGeofenceSettings(doc, e) ==
  LET defaultSettings ==
        [enabled |-> TRUE,
         centerLat |-> OrDefault(NumberOf(e.GEOFENCE_CENTER_LAT), Num(51505000)),
         centerLng |-> OrDefault(NumberOf(e.GEOFENCE_CENTER_LNG), Num(50000)),
         radiusMeters |-> OrDefault(NumberOf(e.GEOFENCE_RADIUS_M), Num(100000))]
  IN IF doc.exists
     THEN [enabled |-> IF doc.enabled = "unset" THEN defaultSettings.enabled
                       ELSE doc.enabled = "true",
           centerLat |-> IF doc.centerLat.t = "null" THEN defaultSettings.centerLat
                         ELSE doc.centerLat,
           centerLng |-> IF doc.centerLng.t = "null" THEN defaultSettings.centerLng
                         ELSE doc.centerLng,
           radiusMeters |-> IF doc.radiusMeters.t = "null"
                            THEN defaultSettings.radiusMeters ELSE doc.radiusMeters]
     ELSE defaultSettings

\* router.get('/geofence-settings'), behind requireAuth and requireAdmin
GetGeofenceSettings(caller) ==
  /\ caller.role = "admin"
  /\ view' = [caller |-> caller.uid, route |-> "/geofence-settings",
              objects |-> << [about |-> "geofence",
                              object |-> adminGeofenceSettings(geofenceDoc, env)] >>]
  /\ UNCHANGED <<profiles, geofenceDoc, env, clock, req, last, used, io, scored, db, calls>>

(***************************************************************************)
(* The group and connection routes.  Each request occupies a slot of       *)
(* `calls` from its arrival to its response and is handled await by        *)
(* await.  db.group is a group document, db.connection the connection      *)
(* document of the pair u1, u2 (buildConnectionId sorts the pair), and     *)
(* db.thread tells whether the thread document of the pair exists.         *)
(***************************************************************************)
Slots == {"c1", "c2"}

NoCall == [op |-> "none", user |-> "", to |-> "", pc |-> "idle", status |-> 0]

NoCalls == [c \in Slots |-> NoCall]

\* groupsRef.doc(): members: [], membersCount: 0 at its creation
NewGroup(status) == [exists |-> TRUE, status |-> status, members |-> {}, membersCount |-> 0]

NoConnection == [exists |-> FALSE, fromUserId |-> "", toUserId |-> "", status |-> "none"]

NoDb == [group |-> NewGroup("approved"), connection |-> NoConnection, thread |-> FALSE]

\* A request arrives in slot c
Call(c, op, user, to, pc) ==
  /\ calls[c].pc = "idle"
  /\ used.calls < MaxCalls
  /\ used' = [used EXCEPT !.calls = @ + 1]
  /\ calls' = [calls EXCEPT ![c] = [op |-> op, user |-> user, to |-> to, pc |-> pc,
                                    status |-> 0]]

\* The request of slot c is answered
Answer(c, code) == calls' = [calls EXCEPT ![c].pc = "idle", ![c].status = code]

\* The request of slot c waits at its next await
Await(c, pc) == calls' = [calls EXCEPT ![c].pc = pc]

\* POST /:id/join and POST /:id/leave arrive: const doc = await docRef.get()
\* is pending
GroupCall(c, op, user) ==
  /\ Call(c, op, user, "", "get")
  /\ UNCHANGED <<profiles, geofenceDoc, env, clock, req, last, io, scored, view, db>>

\* members.includes(userId)
IsMember(members, userId) == userId \in members

\* const doc = await docRef.get() and the checks on it
GroupRead(c) ==
  /\ calls[c].op \in {"join", "leave"}
  /\ calls[c].pc = "get"
  /\ LET data == db.group
         member == IsMember(data.members, calls[c].user)
     IN IF ~data.exists THEN Answer(c, 404)
        ELSE IF calls[c].op = "join" /\ data.status # "approved" THEN Answer(c, 400)
        ELSE IF (calls[c].op = "join") = member THEN Answer(c, 200)
        ELSE Await(c, "update")
  /\ UNCHANGED <<profiles, geofenceDoc, env, clock, req, last, used, io, scored, view, db>>

\* await docRef.update({ members: FieldValue.arrayUnion(userId) or
\* arrayRemove(userId), membersCount: FieldValue.increment(1) or (-1) })
GroupUpdate(c) ==
  /\ calls[c].op \in {"join", "leave"}
  /\ calls[c].pc = "update"
  /\ db' = [db EXCEPT !.group.members =
                        IF calls[c].op = "join" THEN @ \cup {calls[c].user}
                        ELSE @ \ {calls[c].user},
                      !.group.membersCount =
                        IF calls[c].op = "join" THEN @ + 1 ELSE @ - 1]
  /\ Answer(c, 200)
  /\ UNCHANGED <<profiles, geofenceDoc, env, clock, req, last, used, io, scored, view>>

\* POST /request arrives: the checks on toUserId, then
\* const snap = await docRef.get() is pending
RequestCall(c, user, to) ==
  /\ Call(c, "request", user, to, IF to = "" \/ to = user THEN "invalid" ELSE "get")
  /\ UNCHANGED <<profiles, geofenceDoc, env, clock, req, last, io, scored, view, db>>

\* return res.status(400) of POST /request, before any await
RequestRejected(c) ==
  /\ calls[c].op = "request"
  /\ calls[c].pc = "invalid"
  /\ Answer(c, 400)
  /\ UNCHANGED <<profiles, geofenceDoc, env, clock, req, last, used, io, scored, view, db>>

\* const snap = await docRef.get(): an existing connection is reported
RequestRead(c) ==
  /\ calls[c].op = "request"
  /\ calls[c].pc = "get"
  /\ IF db.connection.exists THEN Answer(c, 200) ELSE Await(c, "set")
  /\ UNCHANGED <<profiles, geofenceDoc, env, clock, req, last, used, io, scored, view, db>>

\* await docRef.set(payload)
RequestWrite(c) ==
  /\ calls[c].op = "request"
  /\ calls[c].pc = "set"
  /\ db' = [db EXCEPT !.connection =
                        [exists |-> TRUE, fromUserId |-> calls[c].user,
                         toUserId |-> calls[c].to, status |-> "pending"]]
  /\ Answer(c, 200)
  /\ UNCHANGED <<profiles, geofenceDoc, env, clock, req, last, used, io, scored, view>>

\* PATCH /:id/accept and PATCH /:id/reject arrive: requireParticipant's
\* get is pending
DecisionCall(c, op, user) ==
  /\ Call(c, op, user, "", "participant")
  /\ UNCHANGED <<profiles, geofenceDoc, env, clock, req, last, io, scored, view, db>>

\* data.fromUserId === uid || data.toUserId === uid
isParticipant(data, uid) == data.fromUserId = uid \/ data.toUserId = uid

\* const check = await requireParticipant(connectionId, uid)
CheckParticipant(c) ==
  /\ calls[c].op \in {"accept", "reject"}
  /\ calls[c].pc = "participant"
  /\ IF ~db.connection.exists THEN Answer(c, 404)
     ELSE IF ~isParticipant(db.connection, calls[c].user) THEN Answer(c, 403)
     ELSE Await(c, "update")
  /\ UNCHANGED <<profiles, geofenceDoc, env, clock, req, last, used, io, scored, view, db>>

\* await connectionsRef.doc(connectionId).update({ status: ... })
DecisionUpdate(c) ==
  /\ calls[c].op \in {"accept", "reject"}
  /\ calls[c].pc = "update"
  /\ db' = [db EXCEPT !.connection.status =
                        IF calls[c].op = "accept" THEN "accepted" ELSE "rejected"]
  /\ IF calls[c].op = "accept" THEN Await(c, "thread") ELSE Answer(c, 200)
  /\ UNCHANGED <<profiles, geofenceDoc, env, clock, req, last, used, io, scored, view>>

\* const threadSnap = await threadRef.get()
ThreadRead(c) ==
  /\ calls[c].op = "accept"
  /\ calls[c].pc = "thread"
  /\ IF db.thread THEN Answer(c, 200) ELSE Await(c, "threadset")
  /\ UNCHANGED <<profiles, geofenceDoc, env, clock, req, last, used, io, scored, view, db>>

\* await threadRef.set({ userIds, createdAt, lastMessageAt })
ThreadWrite(c) ==
  /\ calls[c].op = "accept"
  /\ calls[c].pc = "threadset"
  /\ db' = [db EXCEPT !.thread = TRUE]
  /\ Answer(c, 200)
  /\ UNCHANGED <<profiles, geofenceDoc, env, clock, req, last, used, io, scored, view>>

(***************************************************************************)
(* The steps of the location handler after the arrival of the request,     *)
(* with settings reads that succeed as oks allows; and the handler for     *)
(* requests whose bodies are drawn from bodies[u].                         *)
(***************************************************************************)
Steps(oks) ==
  \/ \E u \in Users, ok \in oks : ReadSettings(u, ok)
  \/ \E u \in Users, ok \in oks : CheckGeofence(u, ok)
  \/ \E u \in Users : WriteLocation(u)
  \/ \E u \in Users : ReadOwnProfile(u)
  \/ \E u \in Users, k \in 1..9 : QueryBucket(u, k)
  \/ \E u \in Users : ScanProfiles(u)
  \/ \E u \in Users, ok \in oks : CheckCandidate(u, ok)

\* The requests arrive one at a time (MaxInFlight) and are handled
Handler(callers, bodies, oks) ==
  \/ \E u \in Users, variant \in {"geohash", "legacy"} :
       \E caller \in callers[u], body \in bodies[u] : StartUpdate(caller, u, variant, body)
  \/ Steps(oks)

Edits == \E u \in Users : \E body \in EditBodies(u) : EditProfile(u, body)

Ticks == \E d \in {recentThresholdMs, recentThresholdMs + 1} : Tick(d)

\* No request is being handled
Quiet == \A u \in Users : ~InFlight(u)

\* Nothing has been requested yet
NoUse ==
  [updates |-> 0, edits |-> 0, patches |-> 0, ticks |-> 0, sockets |-> 0, calls |-> 0]

(***************************************************************************)
(* Spec: the candidate search.  Two provisioned accounts, no geofence      *)
(* document; profile edits and the clock interleave with the handler's     *)
(* awaits.                                                                 *)
(***************************************************************************)
Init ==
  /\ profiles = [u \in Users |-> NewProfile]
  /\ geofenceDoc = NoGeofenceDoc
  /\ env \in {EnvUnset, EnvSet}
  /\ clock = 0
  /\ req = [u \in Users |-> Idle]
  /\ last = NoResponse
  /\ used = NoUse
  /\ io = NewServer("jwt", {})
  /\ scored = NotScored
  /\ view = NoView
  /\ db = NoDb
  /\ calls = NoCalls

Next ==
  \/ Handler(Owners, [u \in Users |-> LocationBodies(u)], {TRUE})
  \/ Edits
  \/ Ticks

Spec == Init /\ [][Next]_vars

(***************************************************************************)
(* SpecSeq: the same, with requests handled one after the other: nothing   *)
(* changes while a location update is being handled.                       *)
(***************************************************************************)
NextSeq ==
  \/ Handler(Owners, [u \in Users |-> LocationBodies(u)], {TRUE})
  \/ Quiet /\ Edits
  \/ Quiet /\ Ticks

SpecSeq == Init /\ [][NextSeq]_vars

(***************************************************************************)
(* SpecGeofence: validation and the geofence.  Both accounts have opted    *)
(* in; the administrator patches the geofence document, settings reads     *)
(* and store calls may throw.                                              *)
(***************************************************************************)
OptedIn(u) ==
  LET body == CHOOSE b \in EditBodies(u) : b.locationEnabled
  IN [NewProfile EXCEPT !.major = sanitizeProfile(body).major,
                        !.interests = sanitizeProfile(body).interests,
                        !.locationEnabled = sanitizeProfile(body).locationEnabled]

InitGeofence ==
  /\ profiles = [u \in Users |-> OptedIn(u)]
  /\ geofenceDoc = NoGeofenceDoc
  /\ env \in {EnvUnset, EnvSet}
  /\ clock = 0
  /\ req = [u \in Users |-> Idle]
  /\ last = NoResponse
  /\ used = NoUse
  /\ io = NewServer("jwt", {})
  /\ scored = NotScored
  /\ view = NoView
  /\ db = NoDb
  /\ calls = NoCalls

NextGeofence ==
  \/ Handler(Owners, [u \in Users |-> GeofenceBodies(u)], BOOLEAN)
  \/ \E u \in Users : StoreFails(u)
  \/ \E body \in PatchBodies : PatchGeofence(body)

SpecGeofence == InitGeofence /\ [][NextGeofence]_vars

(***************************************************************************)
(* SpecDispatch: the dispatch.  Both accounts have opted in and three      *)
(* clients have connected; connections register and close while the two    *)
(* accounts report positions 98.96 m apart.                                *)
(***************************************************************************)
DispatchBodies(u) ==
  IF u = "u1"
  THEN { [lat |-> NumberField(51503950), lng |-> NumberField(50000)] }
  ELSE { [lat |-> NumberField(51503060), lng |-> NumberField(50000)] }

\* The profile of u after the edit that opts in with the field of study
\* the two accounts share
OptedInAlike(u) ==
  LET body == CHOOSE b \in EditBodies(u) :
                b.locationEnabled /\ Normalize(b.major) = <<"c", "s">>
  IN [NewProfile EXCEPT !.major = sanitizeProfile(body).major,
                        !.interests = sanitizeProfile(body).interests,
                        !.locationEnabled = sanitizeProfile(body).locationEnabled]

InitDispatch ==
  /\ profiles = [u \in Users |-> OptedInAlike(u)]
  /\ geofenceDoc = NoGeofenceDoc
  /\ env = EnvSet
  /\ clock = 0
  /\ req = [u \in Users |-> Idle]
  /\ last = NoResponse
  /\ used = NoUse
  /\ io \in {NewServer(version, Sockets) : version \in {"jwt", "legacy"}}
  /\ scored = NotScored
  /\ view = NoView
  /\ db = NoDb
  /\ calls = NoCalls

NextDispatch ==
  \/ Handler(Owners, [u \in Users |-> DispatchBodies(u)], {TRUE})
  \/ \E s \in Sockets, claimed \in ClaimedIds : Register(s, claimed)
  \/ \E s \in Sockets : Disconnect(s)

SpecDispatch == InitDispatch /\ [][NextDispatch]_vars

(***************************************************************************)
(* SpecScore: one call of the scorer, on each pair of profiles and radius. *)
(***************************************************************************)
InitScore ==
  /\ profiles = [u \in Users |-> NewProfile]
  /\ geofenceDoc = NoGeofenceDoc
  /\ env = EnvUnset
  /\ clock = 0
  /\ req = [u \in Users |-> Idle]
  /\ last = NoResponse
  /\ used = NoUse
  /\ io = NewServer("jwt", {})
  /\ scored \in { [NotScored EXCEPT !.user = a, !.candidate = b, !.radiusKm = r] :
                    a \in UserProfiles, b \in CandidateProfiles, r \in Radii }
  /\ view = NoView
  /\ db = NoDb
  /\ calls = NoCalls

NextScore == ScoreMatch

SpecScore == InitScore /\ [][NextScore]_vars

(***************************************************************************)
(* SpecSwap: one call of the scorer on each ordered pair of profiles of a  *)
(* set closed under swapping; interest lists may repeat a tag, as          *)
(* sanitizeProfile stores the list it is given.                            *)
(***************************************************************************)
SwapInterests ==
  { <<>>,
    << <<"a", "i">> >>,
    << <<"a", "i">>, <<"a", "i">> >>,
    << <<"m">>, <<"a", "i">>, <<"g", "o">> >> }

SwapProfiles ==
  { ScoreProfile(i, mj, y, at) :
      i \in SwapInterests, mj \in {<<>>, <<"c", "s">>, <<"C", "S">>},
      y \in {Null, Num(2), Num(3)},
      at \in { <<Null, Null>>, <<Num(51503950), Num(50000)>>,
               <<Num(51535000), Num(50000)>> } }

InitSwap ==
  /\ profiles = [u \in Users |-> NewProfile]
  /\ geofenceDoc = NoGeofenceDoc
  /\ env = EnvUnset
  /\ clock = 0
  /\ req = [u \in Users |-> Idle]
  /\ last = NoResponse
  /\ used = NoUse
  /\ io = NewServer("jwt", {})
  /\ scored \in { [NotScored EXCEPT !.user = a, !.candidate = b, !.radiusKm = r] :
                    a \in SwapProfiles, b \in SwapProfiles, r \in {Null, Num(KmCm)} }
  /\ view = NoView
  /\ db = NoDb
  /\ calls = NoCalls

NextSwap == ScoreMatch

SpecSwap == InitSwap /\ [][NextSwap]_vars

(***************************************************************************)
(* SpecOverlap: updates that overlap in time.  Both accounts have opted    *)
(* in with the same field of study; u2 may hold a location stored by an    *)
(* earlier update.  The requests of the two accounts arrive at any time    *)
(* and their awaits interleave.  Coordinates 2 and 3 are 98.96 m apart in  *)
(* adjacent cells, 4 and 1 are 16.35 m apart in one cell.                  *)
(***************************************************************************)
OverlapBodies(u) ==
  IF u = "u1"
  THEN { [lat |-> NumberField(51503950), lng |-> NumberField(50000)],
         [lat |-> NumberField(51504853), lng |-> NumberField(50000)] }
  ELSE { [lat |-> NumberField(51503060), lng |-> NumberField(50000)],
         [lat |-> NumberField(51505000), lng |-> NumberField(50000)] }

\* The profile p once the geohash route has stored the coordinate
\* (lat, lng) at time t
Located(p, lat, lng, t) ==
  [p EXCEPT !.locationLat = Num(lat), !.locationLng = Num(lng),
            !.locationUpdatedAt = Num(t),
            !.geohash = GeohashEncode(Num(lat), Num(lng))]

InitOverlap ==
  /\ profiles \in { [u1 |-> OptedInAlike("u1"), u2 |-> p] :
                      p \in { OptedInAlike("u2"),
                              Located(OptedInAlike("u2"), 51505000, 50000, 0) } }
  /\ geofenceDoc = NoGeofenceDoc
  /\ env = EnvSet
  /\ clock = 0
  /\ req = [u \in Users |-> Idle]
  /\ last = NoResponse
  /\ used = NoUse
  /\ io = NewServer("jwt", {})
  /\ scored = NotScored
  /\ view = NoView
  /\ db = NoDb
  /\ calls = NoCalls

NextOverlap ==
  \/ \E u \in Users, variant \in {"geohash", "legacy"} :
       \E caller \in Owners[u], body \in OverlapBodies(u) : Arrive(caller, u, variant, body)
  \/ Steps({TRUE})

SpecOverlap == InitOverlap /\ [][NextOverlap]_vars

(***************************************************************************)
(* SpecSettings: the two readers of the geofence settings.  The            *)
(* administrator reads and patches the settings while an account updates   *)
(* its location; the environment is set or not.                            *)
(***************************************************************************)
InitSettings ==
  /\ profiles = [u \in Users |-> OptedInAlike(u)]
  /\ geofenceDoc = NoGeofenceDoc
  /\ env \in {EnvUnset, EnvSet}
  /\ clock = 0
  /\ req = [u \in Users |-> Idle]
  /\ last = NoResponse
  /\ used = NoUse
  /\ io = NewServer("jwt", {})
  /\ scored = NotScored
  /\ view = NoView
  /\ db = NoDb
  /\ calls = NoCalls

NextSettings ==
  \/ Handler(Owners, [u \in Users |-> DispatchBodies(u)], {TRUE})
  \/ \E body \in PatchBodies : PatchGeofence(body)
  \/ \E caller \in Callers : GetGeofenceSettings(caller)

SpecSettings == InitSettings /\ [][NextSettings]_vars

(***************************************************************************)
(* SpecGroup: joining and leaving a group.  The group is approved or       *)
(* pending and has no member yet; two requests can be handled at a time,   *)
(* of one account or of two.                                               *)
(***************************************************************************)
InitGroup ==
  /\ profiles = [u \in Users |-> NewProfile]
  /\ geofenceDoc = NoGeofenceDoc
  /\ env = EnvUnset
  /\ clock = 0
  /\ req = [u \in Users |-> Idle]
  /\ last = NoResponse
  /\ used = NoUse
  /\ io = NewServer("jwt", {})
  /\ scored = NotScored
  /\ view = NoView
  /\ db \in { [NoDb EXCEPT !.group = NewGroup(status)] : status \in {"approved", "pending"} }
  /\ calls = NoCalls

NextGroup ==
  \/ \E c \in Slots, op \in {"join", "leave"}, user \in Users : GroupCall(c, op, user)
  \/ \E c \in Slots : GroupRead(c)
  \/ \E c \in Slots : GroupUpdate(c)

SpecGroup == InitGroup /\ [][NextGroup]_vars

(***************************************************************************)
(* SpecConnections: the connection between u1 and u2.  Either may request  *)
(* it, any account may try to accept or to reject it; two requests can be  *)
(* handled at a time.                                                      *)
(***************************************************************************)
InitConnections ==
  /\ profiles = [u \in Users |-> NewProfile]
  /\ geofenceDoc = NoGeofenceDoc
  /\ env = EnvUnset
  /\ clock = 0
  /\ req = [u \in Users |-> Idle]
  /\ last = NoResponse
  /\ used = NoUse
  /\ io = NewServer("jwt", {})
  /\ scored = NotScored
  /\ view = NoView
  /\ db = NoDb
  /\ calls = NoCalls

NextConnections ==
  \/ \E c \in Slots, user \in Users, to \in Users \cup {""} : RequestCall(c, user, to)
  \/ \E c \in Slots : RequestRejected(c)
  \/ \E c \in Slots : RequestRead(c)
  \/ \E c \in Slots : RequestWrite(c)
  \/ \E c \in Slots, op \in {"accept", "reject"}, user \in Accounts :
       DecisionCall(c, op, user)
  \/ \E c \in Slots : CheckParticipant(c)
  \/ \E c \in Slots : DecisionUpdate(c)
  \/ \E c \in Slots : ThreadRead(c)
  \/ \E c \in Slots : ThreadWrite(c)

SpecConnections == InitConnections /\ [][NextConnections]_vars

(***************************************************************************)
(* SpecOwnership: who may update.  Each account, the administrator's       *)
(* included, requests updates of each profile.                             *)
(***************************************************************************)
InitOwnership ==
  /\ profiles = [u \in Users |-> OptedInAlike(u)]
  /\ geofenceDoc = NoGeofenceDoc
  /\ env = EnvSet
  /\ clock = 0
  /\ req = [u \in Users |-> Idle]
  /\ last = NoResponse
  /\ used = NoUse
  /\ io = NewServer("jwt", {})
  /\ scored = NotScored
  /\ view = NoView
  /\ db = NoDb
  /\ calls = NoCalls

NextOwnership == Handler(Anyone, [u \in Users |-> DispatchBodies(u)], {TRUE})

SpecOwnership == InitOwnership /\ [][NextOwnership]_vars

(***************************************************************************)
(* SpecRead: the read endpoints.  Every account reads the directory and    *)
(* the profiles while the two users update their locations.                *)
(***************************************************************************)
InitRead ==
  /\ profiles = [u \in Users |-> OptedInAlike(u)]
  /\ geofenceDoc = NoGeofenceDoc
  /\ env = EnvSet
  /\ clock = 0
  /\ req = [u \in Users |-> Idle]
  /\ last = NoResponse
  /\ used = NoUse
  /\ io = NewServer("jwt", {})
  /\ scored = NotScored
  /\ view = NoView
  /\ db = NoDb
  /\ calls = NoCalls

NextRead ==
  \/ Handler(Owners, [u \in Users |-> DispatchBodies(u)], {TRUE})
  \/ \E caller \in Callers : GetDirectory(caller)
  \/ \E caller \in Callers, route \in {"/:id/profile", "/:id"}, id \in Users :
       GetProfile(caller, route, id)

SpecRead == InitRead /\ [][NextRead]_vars

(***************************************************************************)
(* SpecGates: the gates of a suggestion when a latitude is not finite.     *)
(* Both accounts have opted in and are alike; u1 also sends the latitude   *)
(* "Infinity", which parseFloat reads and validation lets through.         *)
(***************************************************************************)
GateBodies(u) ==
  DispatchBodies(u) \cup
    (IF u = "u1"
     THEN { [lat |-> StringField("Infinity"), lng |-> NumberField(50000)] }
     ELSE {})

InitGates ==
  /\ profiles = [u \in Users |-> OptedInAlike(u)]
  /\ geofenceDoc = NoGeofenceDoc
  /\ env \in {EnvUnset, EnvSet}
  /\ clock = 0
  /\ req = [u \in Users |-> Idle]
  /\ last = NoResponse
  /\ used = NoUse
  /\ io = NewServer("jwt", {})
  /\ scored = NotScored
  /\ view = NoView
  /\ db = NoDb
  /\ calls = NoCalls

NextGates == Handler(Owners, [u \in Users |-> GateBodies(u)], {TRUE})

SpecGates == InitGates /\ [][NextGates]_vars

(***************************************************************************)
(* SpecOrder: the steps of an update and its outcomes.  Requests with and  *)
(* without a latitude, inside and outside the geofence, by users who have  *)
(* and have not opted in; store calls may throw.                           *)
(***************************************************************************)
OrderBodies(u) ==
  IF u = "u1"
  THEN { [lat |-> NumberField(51503950), lng |-> NumberField(50000)],
         [lat |-> Absent, lng |-> NumberField(50000)] }
  ELSE { [lat |-> NumberField(51503060), lng |-> NumberField(50000)],
         [lat |-> NumberField(89000000), lng |-> NumberField(30000)] }

NextOrder ==
  \/ Handler(Owners, [u \in Users |-> OrderBodies(u)], {TRUE})
  \/ \E u \in Users : StoreFails(u)
  \/ Quiet /\ Edits

SpecOrder == Init /\ [][NextOrder]_vars

(***************************************************************************)
(* Properties.                                                             *)
(***************************************************************************)
\* The requests being handled and the last response
Records == {last.r} \cup {req[u] : u \in Users}

\* u's request as it stands: being handled, or just answered
Result(u) == IF InFlight(u) THEN req[u] ELSE last.r

\* This step answers u's request
Responds(u) ==
  /\ last'.user = u
  /\ ~InFlight(u)'
  /\ \/ InFlight(u)
     \/ used'.updates # used.updates /\ \A v \in Users \ {u} : req'[v] = req[v]

\* The cell of the coordinate (lat, lng) and the eight around it
SearchedCells(lat, lng) ==
  LET hs == <<GeohashEncode(lat, lng)>> \o GeohashNeighbors(GeohashEncode(lat, lng))
  IN {hs[k] : k \in 1..Len(hs)}

\* Fewer than 100 m apart, by the distance table
Within100m(lat1, lng1, lat2, lng2) ==
  /\ IsNum(lat1) /\ IsNum(lng1) /\ IsNum(lat2) /\ IsNum(lng2)
  /\ HaversineCm[CoordIndex(lat1.v, lng1.v)][CoordIndex(lat2.v, lng2.v)] < 100 * 100

\* At most `radiusMeters` from the configured centre, by the distance table
WithinRadius(lat, lng, s) ==
  /\ IsNum(lat) /\ IsNum(lng) /\ IsNum(s.centerLat) /\ IsNum(s.centerLng)
  /\ IsNum(s.radiusMeters)
  /\ HaversineCm[CoordIndex(lat.v, lng.v)][CoordIndex(s.centerLat.v, s.centerLng.v)]
       <= s.radiusMeters.v

\* Same non-empty field of study and at least one shared interest tag
SameStudyAndInterest(me, p) ==
  /\ Normalize(me.major) # <<>>
  /\ Normalize(me.major) = Normalize(p.major)
  /\ CommonInterests(NormalizeInterests(me.interests), NormalizeInterests(p.interests)) # <<>>

\* The stored profile p has a coordinate in the cells that the response r
\* searched, less than 100 m from r's coordinate, and the field of study and
\* an interest of the submitter
CloseAndAlike(r, p) ==
  /\ p.geohash \in SearchedCells(r.lat, r.lng)
  /\ Within100m(r.lat, r.lng, p.locationLat, p.locationLng)
  /\ IsNum(p.locationUpdatedAt)
  /\ SameStudyAndInterest(r.me, p)

\* C1: no emitted proximity suggestion names a candidate whose stored
\* location-sharing flag was not true when the candidate query returned it,
\* however recent and close its stored coordinate.
C1_NoCandidateWithSharingOff ==
  \A i \in 1..Len(last.r.emitted) : last.r.emitted[i].candidate.locationEnabled = TRUE

\* An update searched and emitted nothing while a profile with sharing off
\* was fresh, less than 100 m away and alike.
C1_Witness ==
  /\ last.r.status = 200 /\ last.r.queried /\ last.r.variant = "geohash"
  /\ last.r.emitted = <<>>
  /\ \E v \in Users \ {last.user} :
       /\ profiles[v].locationEnabled = FALSE
       /\ CloseAndAlike(last.r, profiles[v])
       /\ last.r.now - profiles[v].locationUpdatedAt.v <= recentThresholdMs

\* C2: no emitted proximity suggestion names a candidate whose stored
\* timestamp is more than 5 minutes older than the time the update was
\* handled.
C2_NoStaleCandidate ==
  \A i \in 1..Len(last.r.emitted) :
    /\ IsNum(last.r.emitted[i].candidate.locationUpdatedAt)
    /\ last.r.emitted[i].handledAt - last.r.emitted[i].candidate.locationUpdatedAt.v
         <= 5 * 60 * 1000

\* An update searched and emitted nothing while a sharing profile was less
\* than 100 m away and alike, its timestamp a millisecond too old.
C2_Witness ==
  /\ last.r.status = 200 /\ last.r.queried /\ last.r.emitted = <<>>
  /\ \E v \in Users \ {last.user} :
       /\ profiles[v].locationEnabled = TRUE
       /\ CloseAndAlike(last.r, profiles[v])
       /\ last.r.now - profiles[v].locationUpdatedAt.v = 5 * 60 * 1000 + 1

\* When a's update was answered, a shared its location and b was an
\* eligible candidate: sharing on, a valid coordinate updated within the last
\* 5 minutes, inside the geofence, less than 100 m from a's new coordinate,
\* same field of study and a shared interest.
Eligible(a, b) ==
  /\ profiles[a].locationEnabled = TRUE
  /\ last.r.me.locationEnabled = TRUE
  /\ profiles[b].locationEnabled = TRUE
  /\ IsNum(profiles[b].locationLat) /\ IsNum(profiles[b].locationLng)
  /\ IsNum(profiles[b].locationUpdatedAt)
  /\ last.r.now - profiles[b].locationUpdatedAt.v <= 5 * 60 * 1000
  /\ LET s == getGeofenceSettings(geofenceDoc, TRUE, env)
     IN ~s.enabled \/ WithinRadius(profiles[b].locationLat, profiles[b].locationLng, s)
  /\ Within100m(last.r.lat, last.r.lng, profiles[b].locationLat, profiles[b].locationLng)
  /\ SameStudyAndInterest(profiles[a], profiles[b])

\* The suggestions for the pair (a, b) in the last response, with the
\* shared interest tags
SuggestionsFor(a, b) ==
  {i \in 1..Len(last.r.emitted) :
     /\ last.r.emitted[i].users = <<a, b>>
     /\ last.r.emitted[i].commonInterests =
          CommonInterests(NormalizeInterests(profiles[a].interests),
                          NormalizeInterests(profiles[b].interests))}

\* C3: an update of a that succeeds while b is an eligible candidate emits
\* exactly one suggestion for the pair, naming both and listing the shared
\* interest tags.
C3_ExactlyOneSuggestion ==
  [][\A a \in Users : \A b \in Users \ {a} :
       (Responds(a) /\ last'.r.status = 200 /\ Eligible(a, b)')
         => Cardinality(SuggestionsFor(a, b)') = 1]_vars

ValidCoordinate(lat, lng) ==
  /\ IsNum(lat) /\ IsNum(lng)
  /\ -90000000 <= lat.v /\ lat.v <= 90000000
  /\ -180000000 <= lng.v /\ lng.v <= 180000000

\* C5: a location update is persisted only if latitude and longitude are
\* finite and in range; any other input is rejected with a client error and
\* nothing is persisted.
C5_OnlyValidCoordinatesAccepted ==
  last.r.pc = "done"
    => /\ last.r.wrote => ValidCoordinate(last.r.lat, last.r.lng)
       /\ ~ValidCoordinate(last.r.lat, last.r.lng) => last.r.status = 400

\* C6: when the geofence is enabled and the submitted coordinate is outside
\* it, the update is rejected with a client error whose reason is not the
\* invalid-coordinate one, the stored coordinate, bucket key and timestamp
\* are unchanged, and there is no candidate search and no dispatch.
C6_OutsideGeofenceRejected ==
  [][\A u \in Users :
       (/\ req[u].pc = "geofence"
        /\ req'[u] # req[u]
        /\ Result(u)'.eval.settings.enabled
        /\ ~WithinRadius(Result(u)'.lat, Result(u)'.lng, Result(u)'.eval.settings))
         => /\ Responds(u)
            /\ last'.r.status = 400
            /\ last'.r.error = "Location outside campus geofence"
            /\ last'.r.error # "Provide valid lat/lng as numbers"
            /\ LocationFields(profiles'[u]) = last'.r.prior
            /\ ~last'.r.wrote
            /\ ~last'.r.queried
            /\ last'.r.emitted = <<>>]_vars

\* An update was rejected as outside the geofence and the location stored
\* by an earlier update is still there.
C6_Witness ==
  /\ last.r.status = 400 /\ last.r.gate = "outside"
  /\ last.r.eval.settings.enabled
  /\ last.user \in Users
  /\ IsNum(last.r.prior.locationLat)
  /\ last.r.prior.locationLat # last.r.lat
  /\ LocationFields(profiles[last.user]) = last.r.prior

\* C7: every profile's stored bucket key is the encoding of its stored
\* coordinate.
C7_BucketKeyMatchesCoordinate ==
  \A u \in Users :
    profiles[u].locationLat.t # "null"
      => profiles[u].geohash
           = GeohashEncode(profiles[u].locationLat, profiles[u].locationLng)

\* C8: the geofence evaluator returns true for every coordinate when the
\* geofence is disabled, and when it is enabled it returns true if and only
\* if the coordinate is at most the configured radius from the configured
\* centre.
C8_EvaluatorIsRadiusTest ==
  \A r \in Records :
    r.eval # NoEval
      => r.eval.inside
           = (~r.eval.settings.enabled
                \/ WithinRadius(r.eval.lat, r.eval.lng, r.eval.settings))

\* The evaluator, enabled, answered true for a coordinate exactly on the
\* radius.
C8_Witness ==
  \E r \in Records :
    /\ r.eval.settings.enabled /\ r.eval.inside
    /\ IsNum(r.eval.lat) /\ IsNum(r.eval.settings.centerLat)
    /\ haversineDistance(r.eval.lat, r.eval.lng, r.eval.settings.centerLat,
                         r.eval.settings.centerLng) = r.eval.settings.radiusMeters

\* C9: with no settings document and no geofence environment variables the
\* geofence is disabled: no request is checked against the hard-coded
\* centre, and a valid coordinate is never rejected.
C9_UnconfiguredIsPermissive ==
  (~geofenceDoc.exists /\ env = EnvUnset)
    => \A r \in Records :
         /\ r.gate \in {"none", "open"}
         /\ ValidCoordinate(r.lat, r.lng)
              => /\ r.status # 400
                 /\ r.pc \notin {"idle", "settings"} => r.gate = "open"

\* With nothing configured, a valid coordinate far outside the hard-coded
\* geofence was accepted and stored.
C9_Witness ==
  /\ ~geofenceDoc.exists /\ env = EnvUnset
  /\ last.r.status = 200 /\ last.r.wrote
  /\ ValidCoordinate(last.r.lat, last.r.lng)
  /\ ~WithinRadius(last.r.lat, last.r.lng, DEFAULT_GEOFENCE)
  /\ last.user \in Users
  /\ profiles[last.user].locationLat = last.r.lat

\* What a request looks like right after its settings read at the await
\* `at` threw: the settings are the ones of the environment and the
\* hard-coded defaults, and the request went on to its normal outcome.
WentOnWithDefaults(r, at, e) ==
  /\ r.status # 500
  /\ at = "settings"
       => /\ r.first = getGeofenceSettings(NoGeofenceDoc, TRUE, e)
          /\ r.pc \in {"geofence", "write"}
  /\ at = "geofence"
       => /\ r.eval.settings = getGeofenceSettings(NoGeofenceDoc, TRUE, e)
          /\ \/ r.pc = "write"
             \/ r.pc = "done" /\ r.status = 400
                  /\ r.error = "Location outside campus geofence"
  /\ at = "candidate"
       => /\ r.eval.settings = getGeofenceSettings(NoGeofenceDoc, TRUE, e)
          /\ \/ r.pc = "candidate"
             \/ r.pc = "done" /\ r.status = 200

\* C10: a failure while reading the geofence settings document never makes
\* the update fail: the defaults of the environment and the code are used
\* and the update goes on to its normal accept-or-reject outcome.
C10_SettingsReadFailureSwallowed ==
  [][\A u \in Users : \A at \in {"settings", "geofence", "candidate"} :
       (req[u].pc = at /\ req'[u] # req[u] /\ Result(u)'.failedAt = at)
         => WentOnWithDefaults(Result(u)', at, env)]_vars

\* The stored document enables the geofence, its read threw, and the
\* request went on to persist under the defaults, which do not.
C10_Witness ==
  \E u \in Users :
    /\ req[u].pc = "write" /\ req[u].failedAt = "settings"
    /\ geofenceDoc.exists /\ geofenceDoc.enabled = "true"
    /\ ~req[u].first.enabled

(***************************************************************************)
(* The dispatch.                                                           *)
(***************************************************************************)
\* The connections the registry holds for an identity
Registered(server, a) ==
  IF a \in DOMAIN server.userSockets THEN server.userSockets[a] ELSE {}

\* What connection s received in this step
NewlyReceived(s) == SubSeq(io'.inbox[s], Len(io.inbox[s]) + 1, Len(io'.inbox[s]))

\* The connections that received payload p in this step
Receivers(p) ==
  {s \in Sockets : \E k \in 1..Len(NewlyReceived(s)) : NewlyReceived(s)[k] = Payload(p)}

\* C11: every suggestion dispatched is received by exactly the connections
\* the registry holds, at the dispatch, for its two participants, and by no
\* connection registered to another identity only.
C11_ReceivedByParticipantsOnly ==
  [][\A u \in Users :
       Responds(u) =>
         \A i \in 1..Len(last'.r.emitted) :
           LET p == last'.r.emitted[i]
           IN Receivers(p) = Registered(io, p.users[1]) \cup Registered(io, p.users[2])]_vars

\* A response of a search that found somebody
Dispatches(u) == Responds(u) /\ last'.r.emitted # <<>>

\* C12: dispatching to an identity without a registry entry is a no-op.
\* The update is answered 200, the suggestion reaches the connections of
\* the other participant at most, and no connection receives anything
\* outside the dispatch step of the suggestion itself: nothing is kept for
\* a connection that registers later.
C12_MissingEntryIsNoOp ==
  [][/\ \A u \in Users :
          Dispatches(u) =>
            /\ last'.r.status = 200
            /\ \A i \in 1..Len(last'.r.emitted), k \in 1..2 :
                 LET p == last'.r.emitted[i]
                 IN Registered(io, p.users[k]) = {}
                      => Receivers(p) \subseteq Registered(io, p.users[3 - k])
     /\ (\A u \in Users : ~Dispatches(u)) => io'.inbox = io.inbox]_vars

\* A suggestion was dispatched while neither participant had a registry
\* entry; a connection has registered for a participant since and has
\* received nothing
C12_Witness ==
  /\ last.r.emitted # <<>>
  /\ last.r.status = 200
  /\ last.r.emitted[1].uSet = {} /\ last.r.emitted[1].oSet = {}
  /\ \E s \in Sockets :
       /\ s \in Registered(io, last.r.emitted[1].users[1])
       /\ s \in io.open
       /\ io.inbox[s] = <<>>

(***************************************************************************)
(* Failures after the write.                                               *)
(***************************************************************************)
\* C13: an update whose location write has succeeded and whose candidate
\* search has begun is answered with success, whatever happens to the
\* candidate queries, the filter and the dispatch.
C13_SuccessOnceWritten ==
  [][\A u \in Users :
       Responds(u) /\ last'.r.wrote /\ last'.r.queried => last'.r.status = 200]_vars

(***************************************************************************)
(* The compatibility scorer.                                               *)
(***************************************************************************)
\* C14: whatever the two profiles and the radius, the score the scorer
\* returns is a number from 0 to 100.
C14_ScoreWithinBounds ==
  scored.called =>
    /\ IsNum(scored.result.score)
    /\ scored.result.score.v >= 0
    /\ scored.result.score.v <= 100

\* The normalized interest tags of a profile
Tags(p) ==
  {NormalizeInterests(p.interests)[i] : i \in 1..Len(NormalizeInterests(p.interests))}

BothLocated(a, b) ==
  /\ IsNum(a.locationLat) /\ IsNum(a.locationLng)
  /\ IsNum(b.locationLat) /\ IsNum(b.locationLng)

\* The distance between two located profiles, in centimetres
ApartCm(a, b) ==
  HaversineCm[CoordIndex(a.locationLat.v, a.locationLng.v)]
             [CoordIndex(b.locationLat.v, b.locationLng.v)]

\* The score of the formula, before clamping
FormulaScore(a, b, radius) ==
  LET shared == Cardinality(Tags(a) \cap Tags(b))
      interest == IF 10 * shared < 30 THEN 10 * shared ELSE 30
      major == IF a.major # <<>> /\ b.major # <<>>
                  /\ ToLowerCase(a.major) = ToLowerCase(b.major)
               THEN 15 ELSE 0
      year == IF a.year.t = "num" /\ b.year.t = "num"
              THEN (IF a.year.v = b.year.v THEN 10
                    ELSE IF a.year.v - b.year.v \in {-1, 1} THEN 6 ELSE 0)
              ELSE 0
      km == ApartCm(a, b) \div KmCm
      proximity == IF ~BothLocated(a, b) THEN 0
                   ELSE IF radius.t = "num" /\ ApartCm(a, b) > radius.v THEN -50
                   ELSE IF km < 15 THEN 15 - km ELSE 0
  IN 30 + interest + major + year + proximity

\* C15: the score returned is the formula's: 30, plus 10 per shared
\* normalized interest tag up to 30, plus 15 for the same field of study
\* whatever the case, plus 10 for the same year or 6 for adjacent years,
\* plus, for two located profiles, -50 beyond a given radius and otherwise
\* 15 less the whole kilometres of distance, not below 0; capped at 100.
C15_ScoreIsFormula ==
  scored.called =>
    LET f == FormulaScore(scored.user, scored.candidate, scored.radiusKm)
    IN scored.result.score = Num(IF f > 100 THEN 100 ELSE f)

\* The same for profiles whose interest tags are stored normalized
C15_ScoreIsFormulaOnStoredTags ==
  scored.called
    /\ NormalizeInterests(scored.user.interests) = scored.user.interests
    /\ NormalizeInterests(scored.candidate.interests) = scored.candidate.interests
  => LET f == FormulaScore(scored.user, scored.candidate, scored.radiusKm)
     IN scored.result.score = Num(IF f > 100 THEN 100 ELSE f)

\* The worked example: interests ai and music on both sides, the same
\* field of study, years 2 and 3, no distance, no radius: 86
C15_Example ==
  /\ scored.called
  /\ scored.user.interests = << <<"a", "i">>, <<"m">> >>
  /\ scored.candidate.interests = << <<"a", "i">>, <<"m">> >>
  /\ scored.user.major = <<"c", "s">> /\ scored.candidate.major = <<"C", "S">>
  /\ scored.user.year = Num(2) /\ scored.candidate.year = Num(3)
  /\ BothLocated(scored.user, scored.candidate)
  /\ ApartCm(scored.user, scored.candidate) = 0
  /\ scored.radiusKm = Null
  /\ scored.result.score = Num(86)

PublicFields ==
  {"id", "userId", "uid", "name", "major", "year", "interests", "bio", "avatarUrl"}

\* The keys of a response object that carry a value
Shown(object) ==
  {f \in DOMAIN object :
     IF f \in {"locationLat", "locationLng", "locationUpdatedAt"}
     THEN object[f].t # "null" ELSE TRUE}

\* C17: a response of the directory or of a profile read about another
\* user carries values for public fields only.
C17_OnlyPublicFieldsShown ==
  \A i \in 1..Len(view.objects) :
    view.objects[i].about # view.caller
      => Shown(view.objects[i].object) \subseteq PublicFields

(***************************************************************************)
(* The gates of a suggestion.                                              *)
(***************************************************************************)
\* C18: every suggestion emitted names a candidate that, as the candidate
\* query returned it, shares its location, has a coordinate and a
\* timestamp no older than five minutes at the handling, passed the
\* geofence check, is less than 100 m from the submitted coordinate, and
\* has the submitter's non-empty field of study, whatever the case, and
\* an interest tag of the submitter's; the interests listed are the
\* normalized tags the two profiles share.
C18_AllGatesHold ==
  \A i \in 1..Len(last.r.emitted) :
    LET p == last.r.emitted[i]
        c == p.candidate
    IN /\ c.locationEnabled = TRUE
       /\ c.locationLat.t # "null" /\ c.locationLng.t # "null"
       /\ c.locationUpdatedAt.t = "num"
       /\ p.handledAt - c.locationUpdatedAt.v <= 5 * 60 * 1000
       /\ p.fence.enabled => WithinRadius(c.locationLat, c.locationLng, p.fence)
       /\ Within100m(last.r.lat, last.r.lng, c.locationLat, c.locationLng)
       /\ p.distanceMeters.t = "num" /\ p.distanceMeters.v < 100 * 100
       /\ ToLowerCase(Trim(last.r.me.major)) # <<>>
       /\ ToLowerCase(Trim(last.r.me.major)) = ToLowerCase(Trim(c.major))
       /\ p.commonInterests # <<>>
       /\ {p.commonInterests[k] : k \in 1..Len(p.commonInterests)}
            = Tags(last.r.me) \cap Tags(c)

(***************************************************************************)
(* The order of the steps and the outcomes.                                *)
(***************************************************************************)
\* The place of a step in the order: validation, settings and geofence
\* check, persist, read of the submitter's opt-in, candidate queries,
\* filter
Rank(pc) ==
  CASE pc = "idle" -> 0
    [] pc = "settings" -> 1
    [] pc = "geofence" -> 2
    [] pc = "write" -> 3
    [] pc = "profile" -> 4
    [] pc \in {"query", "scan"} -> 5
    [] OTHER -> 6

\* The update of u goes on, or ends, in step order; the filter starts when
\* the last bucket query has answered
InOrder(u) ==
  /\ req'[u].pc # "idle" =>
       \/ Rank(req'[u].pc) > Rank(req[u].pc)
       \/ req'[u].pc = req[u].pc /\ req[u].pc \in {"query", "candidate"}
  /\ req[u].pc = "query"
       /\ (req'[u].pc = "candidate" \/ (Responds(u) /\ last'.r.status = 200))
       => Cardinality(req[u].pending) = 1

\* Nothing is stored for u except by the write step of a request of u
\* whose coordinate passed validation and, when the geofence is enforced,
\* lies within it
PersistsAfterChecks(u) ==
  LocationFields(profiles'[u]) # LocationFields(profiles[u]) =>
    /\ req[u].pc = "write" /\ req'[u].pc = "profile"
    /\ req[u].lat.t \in {"num", "inf"} /\ req[u].lng.t \in {"num", "inf"}
    /\ req[u].gate \in {"open", "inside"}
    /\ req[u].gate = "inside"
         => WithinRadius(req[u].lat, req[u].lng, req[u].eval.settings)

\* The outcomes of the response r
Rejected(r) == r.status = 400 /\ ~r.wrote /\ ~r.queried /\ r.emitted = <<>>

Skipped(r) == r.status = 200 /\ r.wrote /\ ~r.queried /\ r.emitted = <<>>

Dispatched(r) == r.status = 200 /\ r.wrote /\ r.queried

Failed(r) == r.status = 500 /\ r.emitted = <<>>

\* C19: an update goes through validation, the geofence check, the write,
\* the read of the submitter's opt-in, the candidate queries (all of them
\* answered), the filter and the dispatch in this order; nothing is stored
\* before validation and the geofence check have passed, nothing is
\* dispatched before the write; and it ends Rejected, Skipped or
\* Dispatched.
C19_OrderedAndEndsInOneOfThree ==
  [][\A u \in Users :
       /\ req'[u] # req[u] \/ Responds(u) => InOrder(u)
       /\ PersistsAfterChecks(u)
       /\ Responds(u) =>
            /\ last'.r.emitted # <<>> => last'.r.wrote
            /\ Rejected(last'.r) \/ Skipped(last'.r) \/ Dispatched(last'.r)]_vars

\* C19, with the failures of the store: the same, and an update ends
\* Rejected, Skipped, Dispatched or, a store call having thrown, Failed
\* with status 500 and nothing dispatched.
C19_OrderedAndEndsInOneOfFour ==
  [][\A u \in Users :
       /\ req'[u] # req[u] \/ Responds(u) => InOrder(u)
       /\ PersistsAfterChecks(u)
       /\ Responds(u) =>
            /\ last'.r.emitted # <<>> => last'.r.wrote
            /\ Rejected(last'.r) \/ Skipped(last'.r) \/ Dispatched(last'.r)
                 \/ Failed(last'.r)]_vars

\* An update went through every step and dispatched a suggestion
C19_Witness ==
  /\ Dispatched(last.r)
  /\ last.r.variant = "geohash"
  /\ last.r.emitted # <<>>

\* The stored location of p is what the update r wrote: the coordinate and
\* the timestamp, and on the route that keeps the index the bucket key
StoredAsWritten(p, r) ==
  /\ p.locationLat = r.update.locationLat
  /\ p.locationLng = r.update.locationLng
  /\ p.locationUpdatedAt = r.update.locationUpdatedAt
  /\ r.variant = "geohash" => p.geohash = r.update.geohash

\* C20: once the write of an update has succeeded, no later step of that
\* update changes the stored coordinate, bucket key or timestamp, and when
\* the update ends, with a failure of the candidate queries, of the filter
\* or of the dispatch included, they are stored exactly as written.
C20_WrittenLocationStays ==
  [][\A u \in Users :
       /\ req[u].wrote /\ (req'[u] # req[u] \/ Responds(u))
            => LocationFields(profiles'[u]) = LocationFields(profiles[u])
       /\ req'[u].wrote => StoredAsWritten(profiles'[u], req'[u])
       /\ Responds(u) /\ last'.r.wrote
            => StoredAsWritten(profiles'[u], last'.r)]_vars

\* An update failed at its candidate queries, after its write, and its
\* location is stored as written
C20_Witness ==
  /\ last.r.status = 500
  /\ last.r.wrote
  /\ last.r.queried
  /\ last.r.variant = "geohash"
  /\ StoredAsWritten(profiles[last.user], last.r)

(***************************************************************************)
(* The registry of connections.                                            *)
(***************************************************************************)
\* The open connections whose registration names identity a
RegisteredAs(server, a) ==
  {s \in server.open : s \in DOMAIN server.connectedUsers /\ server.connectedUsers[s] = a}

\* C21: after any interleaving of register and disconnect events the
\* registry holds for each identity the connections that are connected and
\* registered under it: every connection registered under an identity is in
\* its set, a connection that has disconnected is in no set, and no
\* identity maps to an empty set.
C21_RegistryHoldsLiveConnections ==
  \A a \in Accounts :
    /\ RegisteredAs(io, a) \subseteq Registered(io, a)
    /\ Registered(io, a) \subseteq io.open
    /\ a \in DOMAIN io.userSockets => io.userSockets[a] # {}

(***************************************************************************)
(* What an update leaves alone.                                            *)
(***************************************************************************)
\* This step is a step of the update of u's location
UpdateStep(u) == req'[u] # req[u] \/ Responds(u)

\* The profile p with the location fields of q
WithLocationOf(p, q) ==
  [p EXCEPT !.locationLat = q.locationLat, !.locationLng = q.locationLng,
            !.locationUpdatedAt = q.locationUpdatedAt, !.geohash = q.geohash]

\* C22: a step of a location update changes no stored document but the
\* profile the update is for, and of that profile the location fields only
\* (no suggestion is stored in it); the other profiles, the geofence
\* settings and the registry of connections stay as they are.
C22_UpdateWritesOwnProfileOnly ==
  [][\A u \in Users :
       UpdateStep(u) =>
         /\ \A v \in Users \ {u} : profiles'[v] = profiles[v]
         /\ WithLocationOf(profiles'[u], profiles[u]) = profiles[u]
         /\ geofenceDoc' = geofenceDoc
         /\ io'.userSockets = io.userSockets
         /\ io'.connectedUsers = io.connectedUsers
         /\ io'.open = io.open]_vars

\* An update has stored its location and dispatched a suggestion to a
\* registered connection of the candidate, whose profile holds a location
C22_Witness ==
  /\ last.r.wrote
  /\ last.r.emitted # <<>>
  /\ last.r.emitted[1].oSet # {}
  /\ Registered(io, last.r.emitted[1].users[2]) = last.r.emitted[1].oSet
  /\ IsNum(profiles[last.r.emitted[1].users[2]].locationLat)
  /\ StoredAsWritten(profiles[last.user], last.r)

(***************************************************************************)
(* The scorer with its arguments swapped.                                  *)
(***************************************************************************)
\* C23: with the radius fixed, the scorer called on (user, candidate)
\* returns the score it returns on (candidate, user), for all interest
\* lists, those that repeat a tag included.
C23_ScoreIsSymmetric ==
  scored.called =>
    scored.result.score
      = scoreMatch(scored.candidate, scored.user, scored.radiusKm).score

\* C23 for lists without a repeated tag
C23_ScoreIsSymmetricWithoutRepeats ==
  scored.called
    /\ Cardinality({scored.user.interests[k] : k \in 1..Len(scored.user.interests)})
         = Len(scored.user.interests)
    /\ Cardinality({scored.candidate.interests[k] : k \in 1..Len(scored.candidate.interests)})
         = Len(scored.candidate.interests)
    => scored.result.score
         = scoreMatch(scored.candidate, scored.user, scored.radiusKm).score

(***************************************************************************)
(* The coverage of the nine buckets.                                       *)
(***************************************************************************)
\* The keys a request queries: nearbyHashes
QueriedKeys(r) == {r.hashes[k] : k \in 1..Len(r.hashes)}

\* The coordinates of the distance table less than 100 m from (lat, lng)
CoordsWithin100m(lat, lng) ==
  {i \in 1..Len(Coords) : Within100m(lat, lng, Num(Coords[i][1]), Num(Coords[i][2]))}

\* C24: the bucket key of a coordinate and its 8 neighbours, as an update
\* queries them, include the bucket key of every coordinate less than 100 m
\* from it.
C24_NineBucketsCover100m ==
  \A u \in Users :
    req[u].pc = "query" =>
      \A i \in CoordsWithin100m(req[u].lat, req[u].lng) :
        GeohashEncode(Num(Coords[i][1]), Num(Coords[i][2])) \in QueriedKeys(req[u])

\* C24 at the latitude of the campus, where a cell is wider than 100 m
C24_NineBucketsCover100mAtCampus ==
  \A u \in Users :
    req[u].pc = "query" /\ IsNum(req[u].lat) /\ req[u].lat.v < 52000000 =>
      \A i \in CoordsWithin100m(req[u].lat, req[u].lng) :
        GeohashEncode(Num(Coords[i][1]), Num(Coords[i][2])) \in QueriedKeys(req[u])

(***************************************************************************)
(* One suggestion per candidate.                                           *)
(***************************************************************************)
\* The candidates of the suggestions in the list, in order
CandidatesOf(list) == [i \in 1..Len(list) |-> list[i].userId]

\* No element of the sequence occurs twice
Distinct(seq) == \A i, j \in 1..Len(seq) : i # j => seq[i] # seq[j]

\* C25: an update holds, and emits, at most one suggestion per candidate
\* and none that pairs the submitter with themself, also when the bucket
\* queries returned a profile more than once.
C25_OneSuggestionPerCandidate ==
  /\ \A u \in Users :
       /\ Distinct(CandidatesOf(req[u].suggestions))
       /\ \A i \in 1..Len(req[u].suggestions) : req[u].suggestions[i].userId # u
  /\ Distinct([i \in 1..Len(last.r.emitted) |-> last.r.emitted[i].users[2]])
  /\ \A i \in 1..Len(last.r.emitted) :
       /\ last.r.emitted[i].users[1] = last.user
       /\ last.r.emitted[i].users[2] # last.user

\* An update whose bucket queries returned the candidate twice, and the
\* submitter's own profile, has emitted one suggestion
C25_Witness ==
  /\ last.r.repeats
  /\ last.r.variant = "geohash"
  /\ Len(last.r.emitted) = 1
  /\ last.r.emitted[1].users[2] # last.user

(***************************************************************************)
(* Two updates that overlap in time.                                       *)
(***************************************************************************)
\* The response r of u carries a suggestion that pairs u with v
EmitsPair(r, u, v) ==
  \E i \in 1..Len(r.emitted) : r.emitted[i].users = <<u, v>>

\* This step answers the update of u, the update of v was answered last,
\* and one of the two arrived while the other was being handled
SecondOfOverlapping(u, v) ==
  /\ Responds(u)
  /\ last.user = v
  /\ v \in last'.r.met \/ u \in last.r.met

\* The two responses are of accepted updates of coordinates less than 100 m
\* apart and inside the geofence
BothAcceptedNearby(r1, r2) ==
  /\ r1.status = 200 /\ r2.status = 200
  /\ Within100m(r1.lat, r1.lng, r2.lat, r2.lng)
  /\ r1.gate \in {"open", "inside"} /\ r2.gate \in {"open", "inside"}

\* C26: when two users who have opted in, with the same field of study and
\* a shared interest, submit updates that overlap in time, of coordinates
\* less than 100 m apart and inside the geofence, at least one of the two
\* updates emits a suggestion for the pair.
C26_OneOfTwoOverlappingEmits ==
  [][\A u \in Users : \A v \in Users \ {u} :
       (/\ SecondOfOverlapping(u, v)
        /\ BothAcceptedNearby(last'.r, last.r)
        /\ SameStudyAndInterest(last'.r.me, profiles[v])
        /\ profiles[u].locationEnabled = TRUE /\ profiles[v].locationEnabled = TRUE)
         => EmitsPair(last'.r, u, v) \/ EmitsPair(last.r, v, u)]_vars

\* C26 for two updates handled by the same route
C26_OneOfTwoOverlappingEmitsOnOneRoute ==
  [][\A u \in Users : \A v \in Users \ {u} :
       (/\ SecondOfOverlapping(u, v)
        /\ BothAcceptedNearby(last'.r, last.r)
        /\ last'.r.variant = last.r.variant
        /\ SameStudyAndInterest(last'.r.me, profiles[v])
        /\ profiles[u].locationEnabled = TRUE /\ profiles[v].locationEnabled = TRUE)
         => EmitsPair(last'.r, u, v) \/ EmitsPair(last.r, v, u)]_vars

(***************************************************************************)
(* The two readers of the geofence settings.                               *)
(***************************************************************************)
\* This step is a read of the settings by the administrator
AdminReads == view' # view /\ view'.route = "/geofence-settings"

\* C27: the enabled flag the administrator's read of the settings reports
\* is the flag the location update enforces for the same stored settings
\* and environment, the settings document being there or not, with an
\* enabled field or without.
C27_ReportedIsEnforced ==
  [][AdminReads =>
       view'.objects[1].object.enabled
         = getGeofenceSettings(geofenceDoc, TRUE, env).enabled]_vars

\* C27 for a settings document that has an enabled field
C27_ReportedIsEnforcedWhenStored ==
  [][AdminReads /\ geofenceDoc.exists /\ geofenceDoc.enabled # "unset" =>
       view'.objects[1].object.enabled
         = getGeofenceSettings(geofenceDoc, TRUE, env).enabled]_vars

(***************************************************************************)
(* One configuration per update.                                           *)
(***************************************************************************)
\* This step is the geofence check of a candidate of u's update
ChecksCandidate(u) == req[u].pc = "candidate" /\ req'[u] # req[u]

\* C28: within one update every candidate's geofence check, its settings
\* read succeeding, is evaluated with the settings the decision on the
\* submitted coordinate was made with, also when the administrator patches
\* the settings meanwhile.
C28_OneConfigurationPerUpdate ==
  [][\A u \in Users :
       ChecksCandidate(u) /\ Result(u)'.failedAt = "none"
         => Result(u)'.eval.settings = req[u].decided]_vars

\* C28 between the administrator's patches: while the stored settings stay
\* as they were at the decision, the checks read what the decision read
C28_OneConfigurationWhileUnpatched ==
  [][\A u \in Users :
       ChecksCandidate(u)
         /\ getGeofenceSettings(geofenceDoc, TRUE, env) = req[u].decided
         /\ Result(u)'.failedAt = "none"
         => Result(u)'.eval.settings = req[u].decided]_vars

(***************************************************************************)
(* Group membership.                                                       *)
(***************************************************************************)
\* C29: after any interleaving of join and leave requests the group's
\* membersCount is the number of identities in its members list, and is
\* never negative.
C29_CountIsNumberOfMembers ==
  /\ db.group.membersCount = Cardinality(db.group.members)
  /\ db.group.membersCount >= 0

(***************************************************************************)
(* The acceptance of a connection.                                         *)
(***************************************************************************)
\* This step makes the connection accepted
BecomesAccepted ==
  db'.connection.status = "accepted" /\ db.connection.status # "accepted"

\* This step is the status update of an accept request made by uid
AcceptBy(uid) ==
  \E c \in Slots :
    /\ calls[c].op = "accept" /\ calls[c].pc = "update" /\ calls[c].user = uid
    /\ calls'[c] # calls[c]

\* C30: a connection becomes accepted only by the status update of an
\* accept request made by the recipient of the request, the connection
\* being pending: not by its sender, and not once it was rejected.
C30_AcceptedByRecipientOfPending ==
  [][BecomesAccepted =>
       /\ AcceptBy(db.connection.toUserId)
       /\ db.connection.status = "pending"]_vars

\* C30 as far as the routes go: a connection becomes accepted only by the
\* status update of an accept request made by one of its two participants
C30_AcceptedByParticipant ==
  [][BecomesAccepted =>
       AcceptBy(db.connection.toUserId) \/ AcceptBy(db.connection.fromUserId)]_vars

====
